---- MODULE Spec2Model ----
(***************************************************************************)
(* A model of the cross-process VFS transport of rls-vfs                   *)
(* (src/rls-vfs/src/ipc/linux/mod.rs): the length-prefixed frame codec     *)
(* over pipes, the shared-memory regions and the map registry of the       *)
(* event-driven server, and the client's attachment to a region.           *)
(*                                                                         *)
(* Bytes are numbers below 128: every byte the model produces is ASCII     *)
(* text, a digit of a small little-endian number, or file content drawn    *)
(* from Contents.                                                          *)
(***************************************************************************)
EXTENDS Integers, Sequences, FiniteSets, TLC

\* ------------------------------------------------------------- bounds
\* frames the writer of a blocking channel writes
MaxMsgs == 2
\* connections of the server
NumConn == 2
\* MapInfo values (regions) one server instance creates
MaxRegions == 3
\* client file handles
MaxViews == 1
\* bytes a pipe holds before a write to it would block
PipeCapacity == 40
\* bytes the pipe of the whole-buffer transfers holds
SmallPipe == 2
\* bytes of an input of the whole-buffer transfers
MaxInput == 3
\* the greatest descriptor the OS hands out
MaxFd == 4
\* calls of roll_the_loop
MaxCalls == 2

\* ------------------------------------------------------------- helpers
Min(a, b) == IF a < b THEN a ELSE b

\* the size of the stack buffer buf1 every read loop reads into
BUF1_SIZE == 4096

\* (mutant) the surplus is dropped instead of kept
split_off_clear(v, at) == <<>>

\* Vec::split_off(at) returns the elements [at, len) ...
split_off(v, at) == SubSeq(v, at + 1, Len(v))

\* ... and leaves the vector itself with the elements [0, at)
split_off_self(v, at) == SubSeq(v, 1, at)

\* ------------------------------------------------------------- bincode
\* bincode writes an integer of w bytes little-endian, fixed width
RECURSIVE LE(_, _)
LE(n, w) == IF w = 0 THEN <<>> ELSE <<n % 256>> \o LE(n \div 256, w - 1)

serialize_u32(n) == LE(n, 4)

\* a u32 read back from 4 bytes (each below 128, so below 2^31)
deserialize_u32(b) == b[1] + 256 * b[2] + 65536 * b[3] + 16777216 * b[4]

\* a u64 length prefix read back from 8 bytes; -1 stands for every value of
\* 2^31 or more, which no input of the model is long enough to satisfy
deserialize_len(b) ==
    IF b[5] # 0 \/ b[6] # 0 \/ b[7] # 0 \/ b[8] # 0 THEN -1
    ELSE deserialize_u32(SubSeq(b, 1, 4))

\* a String or PathBuf: u64 length, then the bytes
serialize_str(s) == LE(Len(s), 8) \o s

\* enum VfsRequestMsg { OpenFile(PathBuf), CloseFile(PathBuf) }: u32 variant
\* index, then the field
VariantIndex(tag) == IF tag = "OpenFile" THEN 0 ELSE 1

serialize_request(m) == LE(VariantIndex(m.tag), 4) \o serialize_str(m.path)

\* struct VfsReplyMsg<U> { path: String, length: u32, user_data: U }, with
\* U = u8
serialize_reply(m) ==
    serialize_str(m.path) \o LE(m.length, 4) \o LE(m.user_data, 1)

DeserializeError == [ok |-> FALSE, msg |-> [error |-> "DeserializeError"]]

deserialize_request(b) ==
    IF Len(b) < 12 THEN DeserializeError
    ELSE LET tag == deserialize_u32(SubSeq(b, 1, 4))
             n   == deserialize_len(SubSeq(b, 5, 12))
         IN  IF tag \notin {0, 1} \/ n < 0 \/ Len(b) < 12 + n
             THEN DeserializeError
             ELSE [ok  |-> TRUE,
                   msg |-> [tag  |-> IF tag = 0 THEN "OpenFile" ELSE "CloseFile",
                            path |-> SubSeq(b, 13, 12 + n)]]

deserialize_reply(b) ==
    IF Len(b) < 8 THEN DeserializeError
    ELSE LET n == deserialize_len(SubSeq(b, 1, 8))
         IN  IF n < 0 \/ Len(b) < 8 + n + 4 + 1
             THEN DeserializeError
             ELSE [ok  |-> TRUE,
                   msg |-> [path      |-> SubSeq(b, 9, 8 + n),
                            length    |-> deserialize_u32(SubSeq(b, 9 + n, 12 + n)),
                            user_data |-> b[13 + n]]]

\* bincode::serialize / bincode::deserialize at type T
serialize(T, m) ==
    IF T = "VfsRequestMsg" THEN serialize_request(m) ELSE serialize_reply(m)

deserialize(T, b) ==
    IF T = "VfsRequestMsg" THEN deserialize_request(b) ELSE deserialize_reply(b)

\* ------------------------------------------------------------- messages
\* paths as the clients spell them, as bytes: "/a", "/./a", "/b", "/x"
PathA    == <<47, 97>>
PathDotA == <<47, 46, 47, 97>>
PathB    == <<47, 98>>
PathX    == <<47, 120>>

Spellings == {PathA, PathDotA, PathB, PathX}

\* the messages of the blocking channel's scripts, as the tests generate
\* them: requests of both kinds, replies of any name, length and user data
ScriptRequests == {[tag |-> "OpenFile", path |-> PathA],
                   [tag |-> "CloseFile", path |-> PathDotA]}

ScriptReplies == {[path |-> PathA, length |-> 0, user_data |-> 1],
                  [path |-> <<47, 97, 0>>, length |-> 300, user_data |-> 2]}

Tokens == 1..NumConn

\* one pipe per connection and direction
Chans == Tokens \X {"c2s", "s2c"}

\* the message type a direction carries
MsgType(ch) == IF ch[2] = "c2s" THEN "VfsRequestMsg" ELSE "VfsReplyMsg"

Messages(ch) == IF ch[2] = "c2s" THEN ScriptRequests ELSE ScriptReplies

RECURSIVE SeqsUpTo(_, _)
SeqsUpTo(S, n) ==
    IF n = 0 THEN {<<>>}
    ELSE LET shorter == SeqsUpTo(S, n - 1)
         IN  shorter \cup {Append(s, x) : s \in shorter, x \in S}

VARIABLES
    \* the blocking frame channel
    pipe,       \* pipe[ch]: the bytes written to the pipe and not yet read
    script,     \* script[ch]: the messages given to the writer of ch, in order
    written,    \* written[ch]: how many blocking frame writes returned Ok
    wbuf,       \* wbuf[ch]: the WriteBuffer the writer carries between calls
    wst,        \* wst[ch]: the writer's position, [pc, start_pos]
    rbuf,       \* rbuf[ch]: the ReadBuffer the reader carries between calls
    rst,        \* rst[ch]: the reader's position, [pc, reads]
    recvd,      \* recvd[ch]: what the blocking frame reads returned, in order
    \* the server (LinuxVfsIpcServer) and what it shares with the OS
    panicked,          \* the server process has panicked
    connection_infos,  \* Token -> ConnectionInfo
    live_maps,         \* canonical path -> Weak<MapInfo> (an index of regions)
    regions,           \* every Rc<MapInfo> allocated so far; the index is its identity
    timestamp,         \* the generation field of the server
    poll_read,         \* tokens whose read fd is registered with the poll
    poll_write,        \* tokens whose write fd is registered with the poll
    shm,               \* the OS's shared-memory names: name -> segment (an index of segs)
    segs,              \* the bytes of every shared-memory segment created so far
    vfs,               \* the file contents the Vfs holds, by canonical path
    \* the clients
    views,             \* the LinuxVfsIpcFileHandle values of the clients
    \* observation
    last,              \* the outcome of the server's last request or removal
    \* the pipes' write ends and the server's event loop
    wclosed,           \* the channels whose write end is closed
    loop,              \* where roll_the_loop is, and what it returned
    \* the handles of one process
    fds,               \* fds[h]: the Fd value the place h holds, if any
    raw,               \* raw[h]: the descriptor of an Open fds[h]
    kernel             \* the descriptors that are open in the process

\* what the blocking endpoints of a channel hold
end_vars == <<script, written, wbuf, wst, rbuf, rst, recvd, wclosed>>

\* the Fd values of a process and its descriptors
fd_vars == <<fds, raw, kernel>>

server_vars == <<panicked, connection_infos, live_maps, regions, timestamp,
                 poll_read, poll_write, shm, segs, vfs, views, last, loop, fd_vars>>

vars == <<pipe, script, written, wbuf, wst, rbuf, rst, recvd, panicked,
          connection_infos, live_maps, regions, timestamp, poll_read, poll_write,
          shm, segs, vfs, views, last, wclosed, loop, fds, raw, kernel>>

\* ------------------------------------------------- blocking frame codec
WriterIdle == [pc |-> "idle", start_pos |-> 0]
ReaderIdle == [pc |-> "idle", reads |-> 0]

\* blocking_write_impl up to its call of write_all: serialize the message and
\* its length, append both to wbuf
blocking_write_impl_call(ch) ==
    /\ wst[ch].pc = "idle"
    /\ written[ch] < Len(script[ch])
    /\ LET ext2 == serialize(MsgType(ch), script[ch][written[ch] + 1])
           len  == Len(ext2)   \* `as u32`: every length here is below 2^32
           ext1 == serialize_u32(len)
       IN  wbuf' = [wbuf EXCEPT ![ch] = @ \o ext1 \o ext2]
    /\ wst' = [wst EXCEPT ![ch] = [pc |-> "write_all", start_pos |-> 0]]
    /\ UNCHANGED <<pipe, script, written, rbuf, rst, recvd, wclosed>>
    /\ UNCHANGED server_vars

\* one write syscall of Fd::write_all, which takes res >= 1 bytes; after the
\* one that completes the buffer, blocking_write_impl clears wbuf and returns
write_all_step(ch, res) ==
    /\ wst[ch].pc = "write_all"
    /\ LET len       == Len(wbuf[ch])
           start_pos == wst[ch].start_pos
       IN  /\ start_pos < len
           /\ res \in 1..(len - start_pos)
           /\ pipe' = [pipe EXCEPT
                         ![ch] = @ \o SubSeq(wbuf[ch], start_pos + 1, start_pos + res)]
           /\ IF start_pos + res < len
              THEN /\ wst' = [wst EXCEPT ![ch].start_pos = start_pos + res]
                   /\ UNCHANGED <<wbuf, written>>
              ELSE /\ wst' = [wst EXCEPT ![ch] = WriterIdle]
                   /\ wbuf' = [wbuf EXCEPT ![ch] = <<>>]
                   /\ written' = [written EXCEPT ![ch] = @ + 1]
    /\ UNCHANGED <<script, rbuf, rst, recvd, wclosed>>
    /\ UNCHANGED server_vars

\* the two loop conditions of blocking_read_impl: fewer than 4 bytes, or
\* fewer than the 4 + payload length the first 4 bytes announce
NeedsMore(buf) ==
    \/ Len(buf) < 4
    \/ Len(buf) < deserialize_u32(SubSeq(buf, 1, 4)) + 4

\* (mutant) the payload is decoded from the start of the buffer, header
\* included
blocking_read_impl_finish_from0(T, buf) ==
    LET len == deserialize_u32(SubSeq(buf, 1, 4)) + 4
        res == deserialize(T, SubSeq(buf, 1, len))
    IN  [result |-> res,
         rbuf   |-> IF res.ok THEN split_off(buf, len) ELSE buf]

\* blocking_read_impl once its loops are done: decode the payload, keep the
\* surplus; on a decode error the buffer is left as it is
blocking_read_impl_finish(T, buf) ==
    LET len == deserialize_u32(SubSeq(buf, 1, 4)) + 4
        res == deserialize(T, SubSeq(buf, 5, len))
    IN  [result |-> res,
         rbuf   |-> IF res.ok THEN split_off(buf, len) ELSE buf]

\* a call of blocking_read_impl: it returns at once when the carried buffer
\* already holds a frame, and blocks in read otherwise
blocking_read_impl_call(ch) ==
    /\ rst[ch].pc = "idle"
    /\ IF NeedsMore(rbuf[ch])
       THEN /\ rst' = [rst EXCEPT ![ch] = [pc |-> "read", reads |-> 0]]
            /\ UNCHANGED <<rbuf, recvd>>
       ELSE LET fin == blocking_read_impl_finish(MsgType(ch), rbuf[ch])
            IN  /\ rst' = [rst EXCEPT ![ch] = ReaderIdle]
                /\ rbuf' = [rbuf EXCEPT ![ch] = fin.rbuf]
                /\ recvd' = [recvd EXCEPT ![ch] = Append(@, fin.result)]
    /\ UNCHANGED <<pipe, script, written, wbuf, wst, wclosed>>
    /\ UNCHANGED server_vars

\* read_and_append!: one read syscall that returns res >= 1 bytes, then the
\* loop conditions again
read_and_append(ch, res) ==
    /\ rst[ch].pc = "read"
    /\ res \in 1..Min(Len(pipe[ch]), BUF1_SIZE)
    /\ pipe' = [pipe EXCEPT ![ch] = split_off(@, res)]
    /\ LET buf == rbuf[ch] \o SubSeq(pipe[ch], 1, res)
       IN  IF NeedsMore(buf)
           THEN /\ rbuf' = [rbuf EXCEPT ![ch] = buf]
                /\ rst' = [rst EXCEPT ![ch].reads = Min(@ + 1, 2)]
                /\ UNCHANGED recvd
           ELSE LET fin == blocking_read_impl_finish(MsgType(ch), buf)
                IN  /\ rbuf' = [rbuf EXCEPT ![ch] = fin.rbuf]
                    /\ rst' = [rst EXCEPT
                                 ![ch] = [pc |-> "idle", reads |-> Min(@.reads + 1, 2)]]
                    /\ recvd' = [recvd EXCEPT ![ch] = Append(@, fin.result)]
    /\ UNCHANGED <<script, written, wbuf, wst, wclosed>>
    /\ UNCHANGED server_vars

\* read_and_append! when the pipe is empty and its write end is closed: read
\* returns 0, which is not below 0; nothing is appended to rbuf, and the loop
\* condition, which held before, holds again
read_and_append_eof(ch) ==
    /\ rst[ch].pc = "read"
    /\ pipe[ch] = <<>>
    /\ ch \in wclosed
    /\ rst' = [rst EXCEPT ![ch].reads = Min(@ + 1, 2)]
    /\ UNCHANGED <<pipe, script, written, wbuf, wst, rbuf, recvd, wclosed>>
    /\ UNCHANGED server_vars

\* ------------------------------------------------- Fd: whole-buffer transfers
\* Fd::write_all(cont) up to its first write: with nothing to write it
\* returns at once; script[ch] holds the byte sequences to write
write_all_call(ch) ==
    /\ wst[ch].pc = "idle"
    /\ ch \notin wclosed
    /\ written[ch] < Len(script[ch])
    /\ LET cont == script[ch][written[ch] + 1]
       IN  IF Len(cont) = 0
           THEN /\ written' = [written EXCEPT ![ch] = @ + 1]
                /\ UNCHANGED <<wbuf, wst>>
           ELSE /\ wbuf' = [wbuf EXCEPT ![ch] = cont]
                /\ wst' = [wst EXCEPT ![ch] = [pc |-> "write_all", start_pos |-> 0]]
                /\ UNCHANGED written
    /\ UNCHANGED <<pipe, script, rbuf, rst, recvd, wclosed>>
    /\ UNCHANGED server_vars

\* (mutant) the bytes read are put before those read earlier
read_at_front(buf, bytes) == bytes \o buf

\* libc::read(read_fd, &mut buf[start_pos], ..): the bytes read follow the
\* start_pos bytes read earlier
read_at(buf, bytes) == buf \o bytes

\* (mutant) the bytes read replace what ret held
extend_from_slice_only(ret, bytes) == bytes

\* Vec::extend_from_slice
extend_from_slice(ret, bytes) == ret \o bytes

\* what a whole-buffer read returns
Transferred(op, ok, bytes) == [op |-> op, ok |-> ok, bytes |-> bytes]

\* Fd::read_all(buf) with buf.len() = n up to its first read: with nothing to
\* read it returns at once
read_all_call(ch, n) ==
    /\ rst[ch].pc = "idle"
    /\ IF n = 0
       THEN /\ recvd' = [recvd EXCEPT ![ch] = Append(@, Transferred("read_all", TRUE, <<>>))]
            /\ UNCHANGED rst
       ELSE /\ rst' = [rst EXCEPT ![ch] = [pc |-> "read_all", reads |-> 0]]
            /\ UNCHANGED recvd
    /\ rbuf' = [rbuf EXCEPT ![ch] = <<>>]
    /\ UNCHANGED <<pipe, script, written, wbuf, wst, wclosed>>
    /\ UNCHANGED server_vars

\* One read syscall of Fd::read_all, which returns res: res <= 0 (0 at the
\* end of the file) is returned as an error; otherwise start_pos, the
\* length of rbuf[ch], grows by res, and with start_pos = n the call returns
read_all_step(ch, n, res) ==
    /\ rst[ch].pc = "read_all"
    /\ LET start_pos == Len(rbuf[ch])
           buf       == read_at(rbuf[ch], SubSeq(pipe[ch], 1, res))
       IN  /\ start_pos < n
           /\ res \in 0..Min(Len(pipe[ch]), n - start_pos)
           /\ res = 0 <=> (pipe[ch] = <<>> /\ ch \in wclosed)
           /\ pipe' = [pipe EXCEPT ![ch] = split_off(@, res)]
           /\ IF res = 0
              THEN /\ recvd' = [recvd EXCEPT
                                  ![ch] = Append(@, Transferred("read_all", FALSE, <<>>))]
                   /\ rbuf' = [rbuf EXCEPT ![ch] = <<>>]
                   /\ rst' = [rst EXCEPT ![ch].pc = "idle"]
              ELSE IF start_pos + res < n
              THEN /\ rbuf' = [rbuf EXCEPT ![ch] = buf]
                   /\ rst' = [rst EXCEPT ![ch].reads = Min(@ + 1, 2)]
                   /\ UNCHANGED recvd
              ELSE /\ recvd' = [recvd EXCEPT
                                  ![ch] = Append(@, Transferred("read_all", TRUE, buf))]
                   /\ rbuf' = [rbuf EXCEPT ![ch] = <<>>]
                   /\ rst' = [rst EXCEPT
                                ![ch] = [pc |-> "idle", reads |-> Min(@.reads + 1, 2)]]
    /\ UNCHANGED <<script, written, wbuf, wst, wclosed>>
    /\ UNCHANGED server_vars

\* Fd::read_till_close up to its first read; rbuf[ch] is ret
read_till_close_call(ch) ==
    /\ rst[ch].pc = "idle"
    /\ rst' = [rst EXCEPT ![ch] = [pc |-> "read_till_close", reads |-> 0]]
    /\ rbuf' = [rbuf EXCEPT ![ch] = <<>>]
    /\ UNCHANGED <<pipe, script, written, wbuf, wst, recvd, wclosed>>
    /\ UNCHANGED server_vars

\* one read syscall of Fd::read_till_close, into the 4096 bytes of buf: 0,
\* at the end of the file, ends the loop and ret is returned; otherwise the
\* bytes read are appended to ret
read_till_close_step(ch, res) ==
    /\ rst[ch].pc = "read_till_close"
    /\ res \in 0..Min(Len(pipe[ch]), BUF1_SIZE)
    /\ res = 0 <=> (pipe[ch] = <<>> /\ ch \in wclosed)
    /\ pipe' = [pipe EXCEPT ![ch] = split_off(@, res)]
    /\ IF res = 0
       THEN /\ recvd' = [recvd EXCEPT
                           ![ch] = Append(@, Transferred("read_till_close", TRUE, rbuf[ch]))]
            /\ rbuf' = [rbuf EXCEPT ![ch] = <<>>]
            /\ rst' = [rst EXCEPT ![ch].pc = "idle"]
       ELSE /\ rbuf' = [rbuf EXCEPT
                          ![ch] = extend_from_slice(@, SubSeq(pipe[ch], 1, res))]
            /\ rst' = [rst EXCEPT ![ch].reads = Min(@ + 1, 2)]
            /\ UNCHANGED recvd
    /\ UNCHANGED <<script, written, wbuf, wst, wclosed>>
    /\ UNCHANGED server_vars

\* ------------------------------------------------- the file system, the Vfs
\* The canonical paths of the files that exist: "/a" and "/b". "/./a" is
\* another spelling of "/a"; "/x" does not exist.
CanonPaths == {PathA, PathB}

RealPath(path) == IF path = PathDotA THEN PathA ELSE path

\* (mutant) the path is used as the client spelled it
canonicalize_as_spelled(path) == [ok |-> path # PathX, path |-> path]

\* Path::canonicalize: fails for a path that does not exist
canonicalize(path) ==
    IF path = PathX THEN [ok |-> FALSE, path |-> path]
    ELSE [ok |-> TRUE, path |-> RealPath(path)]

\* the contents a file of the Vfs can have
Contents == {<<>>, <<5>>, <<6, 7>>}

\* what Vfs::with_user_data hands to its closure: Err, or the user data
NoUserData == 0 - 1
UserResults == {NoUserData, 1}

\* what Vfs::load_file returns: Err, or the content the Vfs holds
LoadResults == {"Err", "Ok"}

\* ------------------------------------------------- shared memory regions
\* std::process::id() of the server
ServerPid == 7

RECURSIVE Digits(_)
Digits(n) == IF n < 10 THEN <<48 + n>> ELSE Digits(n \div 10) \o <<48 + (n % 10)>>

\* "/rls-{}-{}-{}\u{0000}" of server_pid, the path and timestamp
shm_name_of(file_path, stamp) ==
    <<47, 114, 108, 115, 45>> \o Digits(ServerPid) \o <<45>> \o file_path
        \o <<45>> \o Digits(stamp) \o <<0>>

generate_shm_name(file_path) == shm_name_of(file_path, timestamp)

\* insertion into and removal from a HashMap
Insert(map, k, v) == (k :> v) @@ map
Remove(map, k) == [x \in (DOMAIN map) \ {k} |-> map[x]]

\* Rc::strong_count of region mi when the open-files tables of tbl hold the
\* only strong references
StrongCount(tbl, mi) ==
    Cardinality({ts \in Tokens \X Spellings :
                    /\ ts[1] \in DOMAIN tbl
                    /\ ts[2] \in DOMAIN tbl[ts[1]].opened_files
                    /\ tbl[ts[1]].opened_files[ts[2]] = mi})

\* Weak::upgrade: Some exactly when a strong reference is left
upgrade(mi) == StrongCount(connection_infos, mi) > 0

\* (mutant) shm_open without O_EXCL: an existing segment of that name is
\* opened, resized and overwritten
MapInfo_open_no_excl(cont, shm_name, names, segments) ==
    IF shm_name \in DOMAIN names
    THEN [ok |-> Len(cont) # 0, created |-> FALSE, shm |-> names,
          segs |-> [segments EXCEPT ![names[shm_name]] = cont]]
    ELSE [ok |-> Len(cont) # 0, created |-> TRUE,
          shm |-> Insert(names, shm_name, Len(segments) + 1),
          segs |-> Append(segments, cont)]

\* (mutant) the content is not copied into the mapping, which stays zeroed
MapInfo_open_zeroed(cont, shm_name, names, segments) ==
    IF shm_name \in DOMAIN names
    THEN [ok |-> FALSE, created |-> FALSE, shm |-> names, segs |-> segments]
    ELSE [ok |-> Len(cont) # 0, created |-> TRUE,
          shm |-> Insert(names, shm_name, Len(segments) + 1),
          segs |-> Append(segments, [i \in 1..Len(cont) |-> 0])]

\* MapInfo::open: shm_open(O_CREAT | O_EXCL) fails when the name is
\* published; ftruncate sizes the new segment; mmap fails for a length of 0
\* (EINVAL), and then the name stays published; else the content is copied in
MapInfo_open(cont, shm_name, names, segments) ==
    IF shm_name \in DOMAIN names
    THEN [ok |-> FALSE, created |-> FALSE, shm |-> names, segs |-> segments]
    ELSE [ok |-> Len(cont) # 0, created |-> TRUE,
          shm |-> Insert(names, shm_name, Len(segments) + 1),
          segs |-> Append(segments, cont)]

\* MapInfo::close: shm_unlink of the name, which fails when it is not
\* published
MapInfo_close(mi, names) ==
    IF regions[mi].shm_name \in DOMAIN names
    THEN [ok |-> TRUE, shm |-> Remove(names, regions[mi].shm_name)]
    ELSE [ok |-> FALSE, shm |-> names]

\* Vfs::load_file(path) when it succeeds: the content of the file that the
\* path names
load_file(path) == vfs[RealPath(path)]

\* setup_mmap: the name, then the content from the Vfs, then the region. A
\* region records shm_name and length; real_path (the path it was made for)
\* and seg (its segment) are kept for the claims.
setup_mmap(path, load) ==
    LET shm_name == generate_shm_name(path)
    IN  IF load = "Err"
        THEN [ok |-> FALSE, regions |-> regions, shm |-> shm, segs |-> segs]
        ELSE LET o == MapInfo_open(load_file(path), shm_name, shm, segs)
             IN  [ok      |-> o.ok,
                  regions |-> IF o.ok
                              THEN Append(regions,
                                          [shm_name  |-> shm_name,
                                           length    |-> Len(load_file(path)),
                                           real_path |-> path,
                                           seg       |-> o.shm[shm_name]])
                              ELSE regions,
                  shm     |-> o.shm,
                  segs    |-> o.segs]

\* try_setup_mmap: canonicalize, take the live region of the registry or set
\* up a new one and enter it, then fetch the user data
try_setup_mmap(path, load, user) ==
    LET c == canonicalize(path)
    IN  IF ~c.ok
        THEN [ok |-> FALSE, created |-> FALSE, mi |-> 0, user_data |-> user,
              regions |-> regions, live_maps |-> live_maps, shm |-> shm, segs |-> segs]
        ELSE IF c.path \in DOMAIN live_maps /\ upgrade(live_maps[c.path])
        THEN [ok |-> user # NoUserData, created |-> FALSE,
              mi |-> live_maps[c.path], user_data |-> user,
              regions |-> regions, live_maps |-> live_maps, shm |-> shm, segs |-> segs]
        ELSE LET s == setup_mmap(c.path, load)
             IN  [ok |-> s.ok /\ user # NoUserData, created |-> s.ok,
                  mi |-> Len(s.regions), user_data |-> user,
                  regions |-> s.regions,
                  live_maps |-> IF s.ok THEN Insert(live_maps, c.path, Len(s.regions))
                                ELSE live_maps,
                  shm |-> s.shm, segs |-> s.segs]

\* (mutant) the region is retired although other references are left
try_remove_last_map_always(tbl, lm, names, mi, file_path) ==
    LET cl == MapInfo_close(mi, names)
    IN  [ok |-> cl.ok, shm |-> cl.shm,
         live_maps |-> IF cl.ok THEN Remove(lm, file_path) ELSE lm]

\* try_remove_last_map(mi, file_path), where mi is a strong reference taken
\* out of a table and tbl holds the others
try_remove_last_map(tbl, lm, names, mi, file_path) ==
    IF StrongCount(tbl, mi) + 1 = 1
    THEN LET cl == MapInfo_close(mi, names)
         IN  [ok |-> cl.ok, shm |-> cl.shm,
              live_maps |-> IF cl.ok THEN Remove(lm, file_path) ELSE lm]
    ELSE [ok |-> TRUE, shm |-> names, live_maps |-> lm]

\* ------------------------------------------------- replies
\* the results of the write syscalls of one write loop: a count of bytes
\* taken, or WouldBlock
WouldBlock == 0 - 1

\* The loop of initial_write over the results wres: every write starts at
\* &buf[0] and offers len - start_pos bytes; a result of 0 or WouldBlock ends
\* the loop.
RECURSIVE initial_write_loop(_, _, _)
initial_write_loop(buf, start_pos, wres) ==
    IF start_pos >= Len(buf) \/ wres = <<>> \/ Head(wres) <= 0
    THEN [start_pos |-> start_pos, emitted |-> <<>>]
    ELSE LET res  == Min(Head(wres), Len(buf) - start_pos)
             rest == initial_write_loop(buf, start_pos + res, Tail(wres))
         IN  [start_pos |-> rest.start_pos,
              emitted   |-> SubSeq(buf, 1, res) \o rest.emitted]

\* (mutant) initial_write that does not register the write fd
initial_write_unregistered(buf, wres) ==
    LET w == initial_write_loop(buf, 0, wres)
    IN  [buf      |-> split_off(buf, w.start_pos),
         emitted  |-> w.emitted,
         register |-> FALSE]

\* initial_write: write until the buffer is written or the pipe would
\* block, keep what is left, register the write fd when something is left
initial_write(buf, wres) ==
    LET w == initial_write_loop(buf, 0, wres)
    IN  [buf      |-> split_off(buf, w.start_pos),
         emitted  |-> w.emitted,
         register |-> w.start_pos < Len(buf)]

\* write_reply: append the serialized reply to the outbound buffer; when the
\* buffer was empty, initial_write
write_reply(buf, reply_msg, wres) ==
    LET old_len == Len(buf)
        buf1    == buf \o serialize("VfsReplyMsg", reply_msg)
    IN  IF old_len = 0
        THEN initial_write(buf1, wres)
        ELSE [buf |-> buf1, emitted |-> <<>>, register |-> FALSE]

\* The results of the write syscalls of a loop that offers n bytes to a
\* nonblocking pipe which holds the bytes p: a write of no more than PIPE_BUF
\* bytes is taken whole when the pipe has room for it and not at all
\* otherwise; of a longer one the pipe takes what it has room for.
PIPE_BUF == 4096

PipeWrites(p, n) ==
    LET room == PipeCapacity - Len(p)
    IN  IF n <= room THEN <<n>>
        ELSE IF n <= PIPE_BUF \/ room = 0 THEN <<WouldBlock>>
        ELSE <<room, WouldBlock>>

\* ------------------------------------------------- the server's handlers
NoReply == [path |-> <<>>, length |-> 0, user_data |-> 0]

NoOp == [op |-> "none", tok |-> 0, path |-> <<>>, result |-> "Ok", reply |-> NoReply,
         created |-> FALSE, content |-> <<>>, served |-> <<>>]

\* roll_the_loop has not been called
NotRolling == [pc |-> "idle", tok |-> 0, start_pos |-> 0, met_eof |-> FALSE,
               result |-> "Ok", calls |-> 0]

\* the bytes a mapping of len bytes of segment seg shows: the segment's,
\* then zeros up to the end of its last page
Mapped(segments, seg, len) ==
    [i \in 1..len |-> IF i <= Len(segments[seg]) THEN segments[seg][i] ELSE 0]

\* the bytes a client reads through the region a reply names
Served(names, segments, reply) ==
    IF reply.path \in DOMAIN names
    THEN Mapped(segments, names[reply.path], reply.length)
    ELSE <<>>

NewConnectionInfo ==
    [server_end_point |-> [read_fd |-> "Open", write_fd |-> "Open"],
     opened_files     |-> <<>>,
     read_state       |-> <<>>,
     write_state      |-> <<>>]

\* A client connects: its ConnectionInfo is entered into connection_infos
\* and the read fd of its endpoint is registered with the poll.
AddConnection(tok) ==
    /\ ~panicked
    /\ tok \notin DOMAIN connection_infos
    /\ connection_infos' = Insert(connection_infos, tok, NewConnectionInfo)
    /\ poll_read' = poll_read \cup {tok}
    /\ last' = NoOp
    /\ UNCHANGED <<panicked, live_maps, regions, timestamp, poll_write, shm, segs,
                   vfs, views, pipe>>
    /\ UNCHANGED end_vars
    /\ UNCHANGED loop
    /\ UNCHANGED fd_vars

\* handle_open_request(token, ci, path), with the results load and user of
\* the Vfs and wres of the write syscalls
handle_open_request(token, path, load, user, wres) ==
    LET ci == connection_infos[token]
        r  == try_setup_mmap(path, load, user)
    IN  /\ regions' = r.regions
        /\ live_maps' = r.live_maps
        /\ shm' = r.shm
        /\ segs' = r.segs
        /\ IF r.ok
           THEN LET map_info  == r.regions[r.mi]
                    reply_msg == [path      |-> map_info.shm_name,
                                  length    |-> map_info.length,
                                  user_data |-> r.user_data]
                    w == write_reply(ci.write_state, reply_msg, wres)
                IN  /\ connection_infos' =
                          [connection_infos EXCEPT
                             ![token].opened_files = Insert(@, path, r.mi),
                             ![token].write_state = w.buf]
                    /\ pipe' = [pipe EXCEPT ![<<token, "s2c">>] = @ \o w.emitted]
                    /\ poll_write' = IF w.register THEN poll_write \cup {token}
                                     ELSE poll_write
                    /\ last' = [op |-> "open", tok |-> token, path |-> path,
                                result |-> "Ok", reply |-> reply_msg,
                                created |-> r.created,
                                content |-> load_file(path),
                                served |-> Served(r.shm, r.segs, reply_msg)]
           ELSE /\ last' = [NoOp EXCEPT !.op = "open", !.tok = token, !.path = path,
                                        !.result = "Err", !.created = r.created]
                /\ UNCHANGED <<connection_infos, pipe, poll_write>>
        /\ UNCHANGED <<panicked, timestamp, poll_read, vfs, views>>

\* (mutant) the registry entry of the path is removed before the table is
\* looked at
handle_close_request_eager(token, path) ==
    LET ci == connection_infos[token]
        lm == Remove(live_maps, path)
    IN  IF path \in DOMAIN ci.opened_files
        THEN LET tbl == [connection_infos EXCEPT
                           ![token].opened_files = Remove(@, path)]
                 rm  == try_remove_last_map(tbl, lm, shm, ci.opened_files[path], path)
             IN  /\ connection_infos' = tbl
                 /\ shm' = rm.shm
                 /\ live_maps' = rm.live_maps
                 /\ last' = [NoOp EXCEPT !.op = "close", !.tok = token, !.path = path,
                                         !.result = IF rm.ok THEN "Ok" ELSE "Err"]
                 /\ UNCHANGED <<panicked, regions, timestamp, poll_read, poll_write,
                                segs, vfs, views, pipe>>
        ELSE /\ last' = [NoOp EXCEPT !.op = "close", !.tok = token, !.path = path,
                                     !.result = "CloseNonOpenedFile"]
             /\ live_maps' = lm
             /\ UNCHANGED <<panicked, connection_infos, regions, timestamp,
                            poll_read, poll_write, shm, segs, vfs, views, pipe>>

\* (mutant) the entry stays in the table of the connection
handle_close_request_kept(token, path) ==
    LET ci == connection_infos[token]
    IN  IF path \in DOMAIN ci.opened_files
        THEN LET rm == try_remove_last_map(connection_infos, live_maps, shm,
                                           ci.opened_files[path], path)
             IN  /\ shm' = rm.shm
                 /\ live_maps' = rm.live_maps
                 /\ last' = [NoOp EXCEPT !.op = "close", !.tok = token, !.path = path,
                                         !.result = IF rm.ok THEN "Ok" ELSE "Err"]
                 /\ UNCHANGED <<panicked, connection_infos, regions, timestamp,
                                poll_read, poll_write, segs, vfs, views, pipe>>
        ELSE /\ last' = [NoOp EXCEPT !.op = "close", !.tok = token, !.path = path,
                                     !.result = "CloseNonOpenedFile"]
             /\ UNCHANGED <<panicked, connection_infos, live_maps, regions, timestamp,
                            poll_read, poll_write, shm, segs, vfs, views, pipe>>

\* handle_close_request(_tok, ci, path)
handle_close_request(token, path) ==
    LET ci == connection_infos[token]
    IN  IF path \in DOMAIN ci.opened_files
        THEN LET tbl == [connection_infos EXCEPT
                           ![token].opened_files = Remove(@, path)]
                 rm  == try_remove_last_map(tbl, live_maps, shm,
                                            ci.opened_files[path], path)
             IN  /\ connection_infos' = tbl
                 /\ shm' = rm.shm
                 /\ live_maps' = rm.live_maps
                 /\ last' = [NoOp EXCEPT !.op = "close", !.tok = token, !.path = path,
                                         !.result = IF rm.ok THEN "Ok" ELSE "Err"]
                 /\ UNCHANGED <<panicked, regions, timestamp, poll_read, poll_write,
                                segs, vfs, views, pipe>>
        ELSE /\ last' = [NoOp EXCEPT !.op = "close", !.tok = token, !.path = path,
                                     !.result = "CloseNonOpenedFile"]
             /\ UNCHANGED <<panicked, connection_infos, live_maps, regions, timestamp,
                            poll_read, poll_write, shm, segs, vfs, views, pipe>>

\* handle_request(tok, ci, req) on the ConnectionInfo of tok
handle_request(tok, req, load, user, wres) ==
    /\ ~panicked
    /\ tok \in DOMAIN connection_infos
    /\ IF req.tag = "OpenFile"
       THEN handle_open_request(tok, req.path, load, user, wres)
       ELSE handle_close_request(tok, req.path)

\* The loop of remove_server_end_point over opened_files.drain(), which
\* yields the entries in the order `order`: each entry is a strong reference
\* while it waits in the drain; an error ends the loop.
RECURSIVE drain_opened_files(_, _, _, _, _)
drain_opened_files(tbl, files, order, lm, names) ==
    IF order = <<>>
    THEN [ok |-> TRUE, shm |-> names, live_maps |-> lm]
    ELSE LET file_path == Head(order)
             waiting   == Cardinality({f \in DOMAIN files :
                                          /\ f # file_path
                                          /\ files[f] = files[file_path]})
             rm == IF waiting = 0
                   THEN try_remove_last_map(tbl, lm, names, files[file_path], file_path)
                   ELSE [ok |-> TRUE, shm |-> names, live_maps |-> lm]
         IN  IF rm.ok
             THEN drain_opened_files(tbl, Remove(files, file_path), Tail(order),
                                     rm.live_maps, rm.shm)
             ELSE rm

\* handle_write(_token, ci), with the results wres of its write syscalls:
\* the loop of initial_write, then buf.split_off(start_pos), which leaves the
\* first start_pos bytes in buf, and the write fd leaves the poll when buf is
\* empty
handle_write(token, wres) ==
    /\ ~panicked
    /\ token \in DOMAIN connection_infos
    /\ token \in poll_write
    /\ LET ci  == connection_infos[token]
           w   == initial_write_loop(ci.write_state, 0, wres)
           buf == split_off_self(ci.write_state, w.start_pos)
       IN  /\ pipe' = [pipe EXCEPT ![<<token, "s2c">>] = @ \o w.emitted]
           /\ connection_infos' = [connection_infos EXCEPT ![token].write_state = buf]
           /\ poll_write' = IF buf = <<>> THEN poll_write \ {token} ELSE poll_write
    /\ last' = [NoOp EXCEPT !.op = "write", !.tok = token]
    /\ UNCHANGED <<panicked, live_maps, regions, timestamp, poll_read, shm, segs,
                   vfs, views>>
    /\ UNCHANGED end_vars
    /\ UNCHANGED loop
    /\ UNCHANGED fd_vars

\* (mutant) no drop panics
Fd_drop_quiet(fd) == FALSE

\* Drop of Fd: a handle that is still Open panics
Fd_drop(fd) == fd = "Open"

\* remove_server_end_point(tok): take the connection out of the table,
\* deregister its read fd and, when output is pending, its write fd, give up
\* every region reference; then the ConnectionInfo is dropped, and with it
\* the two handles of its endpoint
remove_server_end_point(tok, order) ==
    /\ ~panicked
    /\ IF tok \in DOMAIN connection_infos
       THEN LET ci  == connection_infos[tok]
                tbl == Remove(connection_infos, tok)
                read_ok  == tok \in poll_read
                write_ok == Len(ci.write_state) = 0 \/ tok \in poll_write
                d == IF read_ok /\ write_ok
                     THEN drain_opened_files(tbl, ci.opened_files, order, live_maps, shm)
                     ELSE [ok |-> FALSE, shm |-> shm, live_maps |-> live_maps]
            IN  /\ DOMAIN ci.opened_files = {order[i] : i \in 1..Len(order)}
                /\ Len(order) = Cardinality(DOMAIN ci.opened_files)
                /\ connection_infos' = tbl
                /\ poll_read' = poll_read \ {tok}
                /\ poll_write' = IF read_ok /\ Len(ci.write_state) # 0
                                 THEN poll_write \ {tok} ELSE poll_write
                /\ shm' = d.shm
                /\ live_maps' = d.live_maps
                /\ panicked' = (Fd_drop(ci.server_end_point.read_fd)
                                  \/ Fd_drop(ci.server_end_point.write_fd))
                /\ last' = [NoOp EXCEPT !.op = "remove", !.tok = tok,
                                        !.result = IF d.ok THEN "Ok" ELSE "Err"]
       ELSE /\ order = <<>>
            /\ last' = [NoOp EXCEPT !.op = "remove", !.tok = tok,
                                    !.result = "RemoveUnknownClient"]
            /\ UNCHANGED <<panicked, connection_infos, live_maps, poll_read,
                           poll_write, shm>>
    /\ UNCHANGED <<regions, timestamp, segs, vfs, views, pipe>>
    /\ UNCHANGED end_vars
    /\ UNCHANGED loop
    /\ UNCHANGED fd_vars

\* ------------------------------------------------- the event loop
\* add_server_end_point(s_ep): the read fd of the end point is registered
\* for readable events under the token made of it; nothing is entered into
\* connection_infos; s_ep, which the function owns, is dropped when the
\* function ends, its two handles Open
add_server_end_point(tok) ==
    LET s_ep == [read_fd |-> "Open", write_fd |-> "Open"]
    IN  /\ ~panicked
        /\ tok \notin poll_read
        /\ poll_read' = poll_read \cup {tok}
        /\ panicked' = (Fd_drop(s_ep.read_fd) \/ Fd_drop(s_ep.write_fd))
        /\ last' = [NoOp EXCEPT !.op = "add", !.tok = tok]
        /\ UNCHANGED <<connection_infos, live_maps, regions, timestamp, poll_write,
                       shm, segs, vfs, views, pipe>>
        /\ UNCHANGED end_vars
        /\ UNCHANGED loop
        /\ UNCHANGED fd_vars

\* roll_the_loop is called: it waits in poll.poll
roll_the_loop_call ==
    /\ ~panicked
    /\ loop.pc \in {"idle", "returned"}
    /\ loop.calls < MaxCalls
    /\ loop' = [NotRolling EXCEPT !.pc = "poll", !.calls = loop.calls + 1]
    /\ UNCHANGED fd_vars
    /\ last' = NoOp
    /\ UNCHANGED <<panicked, connection_infos, live_maps, regions, timestamp,
                   poll_read, poll_write, shm, segs, vfs, views, pipe>>
    /\ UNCHANGED end_vars

\* roll_the_loop returns Err(result)
Returned(token, result) ==
    [NotRolling EXCEPT !.pc = "returned", !.tok = token, !.result = result,
                       !.calls = loop.calls]

\* An event of roll_the_loop that is readable, for a token of the poll: a
\* token connection_infos does not hold ends the loop with TokenNotFound;
\* otherwise handle_read begins: its nonblocking reads take all the pipe
\* holds into read_state.buf, and the last read returns 0 (met_eof) when the
\* write end of the pipe is closed
roll_the_loop_readable(token) ==
    LET ch == <<token, "c2s">>
    IN  /\ ~panicked
        /\ loop.pc = "poll"
        /\ token \in poll_read
        /\ pipe[ch] # <<>> \/ ch \in wclosed
        /\ UNCHANGED fd_vars
        /\ IF token \notin DOMAIN connection_infos
           THEN /\ loop' = Returned(token, "TokenNotFound")
                /\ UNCHANGED <<connection_infos, pipe>>
           ELSE /\ connection_infos' =
                      [connection_infos EXCEPT ![token].read_state = @ \o pipe[ch]]
                /\ pipe' = [pipe EXCEPT ![ch] = <<>>]
                /\ loop' = [loop EXCEPT !.pc = "frames", !.tok = token,
                                        !.start_pos = 0,
                                        !.met_eof = (ch \in wclosed)]
        /\ last' = NoOp
        /\ UNCHANGED <<panicked, live_maps, regions, timestamp, poll_read,
                       poll_write, shm, segs, vfs, views>>
        /\ UNCHANGED end_vars

\* One round of the `while start_pos + 4 <= len` of handle_read, or its end.
\* A round reads msg_len, decodes buf[start_pos+4 .. start_pos+msg_len] (a
\* slice that panics when msg_len < 4), hands the request to handle_request
\* and adds msg_len to start_pos; an error of the decoding or of the handler
\* is returned at once, through handle_read and roll_the_loop, and leaves
\* read_state.buf as it is. The end cuts the handled bytes off the buffer and
\* looks at met_eof. recvd notes the requests handed to handle_request; last
\* notes how handle_read ended: op is "eof" when its reads met the end of the
\* pipe, "read" when they did not.
handle_read(load, user, wres) ==
    LET token     == loop.tok
        ch        == <<token, "c2s">>
        buf       == connection_infos[token].read_state
        len       == Len(buf)
        start_pos == loop.start_pos
        msg_len   == deserialize_u32(SubSeq(buf, start_pos + 1, start_pos + 4))
        d         == deserialize("VfsRequestMsg",
                                 SubSeq(buf, start_pos + 5, start_pos + msg_len))
        rest      == split_off(buf, start_pos)
    IN  /\ ~panicked
        /\ loop.pc = "frames"
        /\ IF start_pos + 4 <= len /\ msg_len + start_pos <= len
           THEN IF msg_len < 4
                THEN /\ panicked' = TRUE
                     /\ last' = NoOp
                     /\ UNCHANGED <<connection_infos, live_maps, regions, timestamp,
                                    poll_read, poll_write, shm, segs, vfs, views,
                                    pipe, recvd, loop>>
                ELSE IF ~d.ok
                THEN /\ loop' = Returned(token, "DeserializeError")
                     /\ last' = NoOp
                     /\ UNCHANGED <<panicked, connection_infos, live_maps, regions,
                                    timestamp, poll_read, poll_write, shm, segs,
                                    vfs, views, pipe, recvd>>
                ELSE /\ handle_request(token, d.msg, load, user, wres)
                     /\ recvd' = [recvd EXCEPT ![ch] = Append(@, d.msg)]
                     /\ loop' = IF last'.result = "Ok"
                                THEN [loop EXCEPT !.start_pos = start_pos + msg_len]
                                ELSE Returned(token, last'.result)
           ELSE /\ connection_infos' =
                      [connection_infos EXCEPT ![token].read_state = rest]
                /\ loop' = IF loop.met_eof /\ rest # <<>>
                           THEN Returned(token, "PipeCloseMiddle")
                           ELSE [NotRolling EXCEPT !.pc = "poll", !.calls = loop.calls]
                /\ last' = [NoOp EXCEPT
                              !.op = IF loop.met_eof THEN "eof" ELSE "read",
                              !.tok = token,
                              !.result = IF loop.met_eof /\ rest # <<>>
                                         THEN "PipeCloseMiddle" ELSE "Ok"]
                /\ UNCHANGED <<panicked, live_maps, regions, timestamp, poll_read,
                               poll_write, shm, segs, vfs, views, pipe, recvd>>
        /\ UNCHANGED <<script, written, wbuf, wst, rbuf, rst, wclosed>>
        /\ UNCHANGED fd_vars

\* an event of roll_the_loop that is writable: handle_write, which returns Ok
roll_the_loop_writable(token, wres) ==
    /\ loop.pc = "poll"
    /\ handle_write(token, wres)

\* ------------------------------------------------- the environment
\* the Vfs takes a new content for a file
VfsChange(path, cont) ==
    /\ vfs[path] # cont
    /\ vfs' = [vfs EXCEPT ![path] = cont]
    /\ last' = NoOp
    /\ UNCHANGED <<panicked, connection_infos, live_maps, regions, timestamp,
                   poll_read, poll_write, shm, segs, views, pipe>>
    /\ UNCHANGED end_vars
    /\ UNCHANGED loop
    /\ UNCHANGED fd_vars

\* the peer of a pipe reads res bytes from it (Fd::read)
peer_read(ch, res) ==
    /\ res \in 1..Min(Len(pipe[ch]), BUF1_SIZE)
    /\ pipe' = [pipe EXCEPT ![ch] = split_off(@, res)]
    /\ last' = NoOp
    /\ UNCHANGED <<panicked, connection_infos, live_maps, regions, timestamp,
                   poll_read, poll_write, shm, segs, vfs, views>>
    /\ UNCHANGED end_vars
    /\ UNCHANGED loop
    /\ UNCHANGED fd_vars

\* the peer of a pipe writes bytes to it, in one write of no more than
\* PIPE_BUF bytes (Fd::write); script notes what the bytes are to carry
peer_write(ch, bytes, carried) ==
    /\ ch \notin wclosed
    /\ Len(bytes) \in 1..PIPE_BUF
    /\ pipe' = [pipe EXCEPT ![ch] = @ \o bytes]
    /\ script' = [script EXCEPT ![ch] = Append(@, carried)]
    /\ last' = NoOp
    /\ UNCHANGED <<panicked, connection_infos, live_maps, regions, timestamp,
                   poll_read, poll_write, shm, segs, vfs, views>>
    /\ UNCHANGED <<written, wbuf, wst, rbuf, rst, recvd, wclosed>>
    /\ UNCHANGED loop
    /\ UNCHANGED fd_vars

\* the write end of a pipe is closed (Fd::close), by a writer that is not in
\* the middle of a write_all
Fd_close(ch) ==
    /\ ch \notin wclosed
    /\ wst[ch].pc = "idle"
    /\ wclosed' = wclosed \cup {ch}
    /\ last' = NoOp
    /\ UNCHANGED <<panicked, connection_infos, live_maps, regions, timestamp,
                   poll_read, poll_write, shm, segs, vfs, views, pipe>>
    /\ UNCHANGED <<script, written, wbuf, wst, rbuf, rst, recvd>>
    /\ UNCHANGED loop
    /\ UNCHANGED fd_vars

\* ------------------------------------------------- client file handles
Views == 1..MaxViews

\* the replies a client can hold: those of the regions the server has set up
ClientReplies ==
    {[path |-> regions[mi].shm_name, length |-> regions[mi].length, user_data |-> 1] :
        mi \in 1..Len(regions)}

\* LinuxVfsIpcFileHandle::Closed; `panicked` tells that the thread that owns
\* the handle has panicked in a destructor of it
Closed == [state |-> "Closed", seg |-> 0, length |-> 0, first |-> <<>>,
           panicked |-> FALSE]

\* LinuxVfsIpcFileHandle::from_reply: shm_open(O_RDONLY) fails for a name
\* that is not published, mmap for a length of 0; else the handle is Open on
\* a mapping of reply.length bytes. `first` keeps what the mapping showed
\* when it was made.
from_reply(v, reply) ==
    /\ v \notin DOMAIN views
    /\ reply.path \in DOMAIN shm
    /\ reply.length # 0
    /\ views' = Insert(views, v,
                       [state  |-> "Open",
                        seg    |-> shm[reply.path],
                        length |-> reply.length,
                        first  |-> Mapped(segs, shm[reply.path], reply.length),
                        panicked |-> FALSE])
    /\ last' = NoOp
    /\ UNCHANGED <<panicked, connection_infos, live_maps, regions, timestamp,
                   poll_read, poll_write, shm, segs, vfs, pipe>>
    /\ UNCHANGED end_vars
    /\ UNCHANGED loop
    /\ UNCHANGED fd_vars

\* Drop for LinuxVfsIpcFileHandle: a handle that is still Open panics
FileHandle_drop(handle) == handle.state = "Open"

\* `*self = Self::Closed` drops the value that *self held
assign_drops(handle) == FileHandle_drop(handle)

\* what a call on the handle v leaves
HandleDone(op, v, result, value) ==
    /\ last' = [NoOp EXCEPT !.op = op, !.tok = v, !.result = result, !.content = value]
    /\ UNCHANGED <<panicked, connection_infos, live_maps, regions, timestamp,
                   poll_read, poll_write, shm, segs, vfs, pipe>>
    /\ UNCHANGED end_vars
    /\ UNCHANGED loop
    /\ UNCHANGED fd_vars

\* LinuxVfsIpcFileHandle::close: EBADF for a Closed handle; for an Open one
\* munmap (which succeeds on the whole mapping that mmap made), then the
\* assignment `*self = Self::Closed`, which drops the Open value first
file_handle_close(v) ==
    /\ v \in DOMAIN views
    /\ ~views[v].panicked
    /\ IF views[v].state = "Closed"
       THEN /\ UNCHANGED views
            /\ HandleDone("LinuxVfsIpcFileHandle::close", v, "EBADF", <<>>)
       ELSE /\ views' = [views EXCEPT
                            ![v] = [Closed EXCEPT !.panicked = assign_drops(views[v])]]
            /\ HandleDone("LinuxVfsIpcFileHandle::close", v,
                          IF assign_drops(views[v]) THEN "panic" ELSE "Ok", <<>>)

\* get_file_ref: the bytes of the mapping as they are now, or
\* GetFileFromClosedHandle
get_file_ref(v) ==
    IF views[v].state = "Open"
    THEN [result |-> "Ok", value |-> Mapped(segs, views[v].seg, views[v].length)]
    ELSE [result |-> "GetFileFromClosedHandle", value |-> <<>>]

\* a call of get_file_ref
get_file_ref_call(v) ==
    /\ v \in DOMAIN views
    /\ ~views[v].panicked
    /\ UNCHANGED views
    /\ HandleDone("get_file_ref", v, get_file_ref(v).result, get_file_ref(v).value)

\* the handle goes out of scope: a Closed one is gone, an Open one panics and
\* its mapping stays
file_handle_drop(v) ==
    /\ v \in DOMAIN views
    /\ ~views[v].panicked
    /\ views' = IF FileHandle_drop(views[v])
                THEN [views EXCEPT ![v].panicked = TRUE]
                ELSE Remove(views, v)
    /\ HandleDone("drop", v, IF FileHandle_drop(views[v]) THEN "panic" ELSE "Ok", <<>>)

\* a handle made as LinuxVfsIpcFileHandle::Closed
file_handle_closed(v) ==
    /\ v \notin DOMAIN views
    /\ views' = Insert(views, v, Closed)
    /\ HandleDone("LinuxVfsIpcFileHandle::Closed", v, "Ok", <<>>)

\* ------------------------------------------------- Fd: the handle
\* The places of a process that hold an Fd: two variables of type Fd, the
\* fields of the two pipes of a LinuxVfsIpcChannel (or of two values of type
\* Pipe), the fields of an end point.
Places == {"fd1", "fd2", "s2c_read", "s2c_write", "c2s_read", "c2s_write",
           "ep_read", "ep_write"}

Pipes == {"s2c", "c2s"}
read_fd(p) == IF p = "s2c" THEN "s2c_read" ELSE "c2s_read"
write_fd(p) == IF p = "s2c" THEN "s2c_write" ELSE "c2s_write"

\* fds[h] is "Open", "Closed", or "None" where no value lives (never
\* initialised, moved out of, or dropped). A process is the record of its
\* places, their descriptors and its open descriptors.
Process == [fd |-> fds, raw |-> raw, kernel |-> kernel]

\* what an operation leaves: the process, the Ok or the error it returns, the
\* value of an Ok, and whether a destructor panicked
Returns(P, result) == [P |-> P, result |-> result, value |-> <<>>, panics |-> FALSE]

\* (mutant) close of a Closed handle returns Ok
close_quiet(P, h) ==
    IF P.fd[h] = "Closed" \/ P.raw[h] \in P.kernel
    THEN Returns([P EXCEPT !.fd[h] = "Closed", !.kernel = @ \ {P.raw[h]}], "Ok")
    ELSE Returns(P, "EBADF")

\* (mutant) the handle is Closed even when libc::close fails
close_always(P, h) ==
    IF P.fd[h] = "Closed"
    THEN Returns(P, "EBADF")
    ELSE Returns([P EXCEPT !.fd[h] = "Closed", !.kernel = @ \ {P.raw[h]}],
                 IF P.raw[h] \in P.kernel THEN "Ok" ELSE "EBADF")

\* Fd::close: EBADF for a Closed handle; for an Open one libc::close, which
\* fails for a descriptor that is not open and leaves the handle Open, and
\* otherwise releases the descriptor: the handle is Closed
close(P, h) ==
    IF P.fd[h] = "Closed"
    THEN Returns(P, "EBADF")
    ELSE IF P.raw[h] \in P.kernel
    THEN Returns([P EXCEPT !.fd[h] = "Closed", !.kernel = @ \ {P.raw[h]}], "Ok")
    ELSE Returns(P, "EBADF")

\* (mutant) try_close is close
try_close_strict(P, h) == close(P, h)

\* Fd::try_close
try_close(P, h) ==
    IF P.fd[h] = "Closed" THEN Returns(P, "Ok") ELSE close(P, h)

\* (mutant) take_raw releases the descriptor
take_raw_release(P, h) ==
    IF P.fd[h] = "Open"
    THEN [Returns([P EXCEPT !.fd[h] = "Closed", !.kernel = @ \ {P.raw[h]}], "Ok")
             EXCEPT !.value = <<P.raw[h]>>]
    ELSE Returns(P, "EBADF")

\* Fd::take_raw: the descriptor of an Open handle, which is Closed from then
\* on (the old value is forgotten, not dropped); EBADF for a Closed one
take_raw(P, h) ==
    IF P.fd[h] = "Open"
    THEN [Returns([P EXCEPT !.fd[h] = "Closed"], "Ok") EXCEPT !.value = <<P.raw[h]>>]
    ELSE Returns(P, "EBADF")

\* the descriptors a process may have open: 0, 1, 2 and MaxFd more
Descriptors == 0..(MaxFd + 2)

\* the least descriptor that is not open
NextFd(k) == CHOOSE n \in Descriptors : n \notin k /\ \A m \in 0..(n - 1) : m \in k

\* Fd::from_raw(n) into the place h
from_raw(P, h, n) == Returns([P EXCEPT !.fd[h] = "Open", !.raw[h] = n], "Ok")

\* Pipe::new: pipe2 makes two descriptors, which two Open handles take; it
\* fails when the process cannot have two more
Pipe_new(P, p) ==
    LET r == NextFd(P.kernel)
        w == NextFd(P.kernel \cup {r})
    IN  IF Cardinality(Descriptors \ P.kernel) < 2
        THEN Returns(P, "EMFILE")
        ELSE Returns([fd     |-> [P.fd EXCEPT ![read_fd(p)] = "Open",
                                              ![write_fd(p)] = "Open"],
                      raw    |-> [P.raw EXCEPT ![read_fd(p)] = r, ![write_fd(p)] = w],
                      kernel |-> P.kernel \cup {r, w}], "Ok")

\* (mutant) Pipe::close closes the write end only
Pipe_close_write_only(P, p) == close(P, write_fd(p))

\* Pipe::close: close_write()?; close_read()
Pipe_close(P, p) ==
    LET close_write == close(P, write_fd(p))
    IN  IF close_write.result = "Ok" THEN close(close_write.P, read_fd(p))
        ELSE close_write

\* Pipe::try_close
Pipe_try_close(P, p) ==
    LET try_close_write == try_close(P, write_fd(p))
    IN  IF try_close_write.result = "Ok" THEN try_close(try_close_write.P, read_fd(p))
        ELSE try_close_write

\* a value is moved from the place src to the place dst, which holds none:
\* nothing is dropped
Move(P, src, dst) ==
    [P EXCEPT !.fd[dst] = P.fd[src], !.raw[dst] = P.raw[src], !.fd[src] = "None"]

\* LinuxVfsIpcClientEndPoint::close / LinuxVfsIpcServerEndPoint::close
EndPoint_close(P) ==
    LET close_write == close(P, "ep_write")
    IN  IF close_write.result = "Ok" THEN close(close_write.P, "ep_read")
        ELSE close_write

\* the values in the places hs go out of scope: Drop for Fd runs on each
DropAll(P, hs) ==
    [Returns([P EXCEPT !.fd = [h \in Places |-> IF h \in hs THEN "None" ELSE P.fd[h]]],
             "Ok")
        EXCEPT !.panics = \E h \in hs : Fd_drop(P.fd[h])]

\* an error return that drops the values in the places hs
Fails(r, hs) == [DropAll(r.P, hs) EXCEPT !.result = r.result]

ChannelPlaces == {"s2c_read", "s2c_write", "c2s_read", "c2s_write"}

\* (mutant) the server side closes the handles the server needs
into_server_end_point_postfork_swapped(P) ==
    LET close_read == close(P, "c2s_read")
        c == IF close_read.result = "Ok" THEN close(close_read.P, "s2c_write")
             ELSE close_read
    IN  IF c.result = "Ok"
        THEN DropAll(Move(Move(c.P, "s2c_read", "ep_read"), "c2s_write", "ep_write"),
                     ChannelPlaces)
        ELSE Fails(c, ChannelPlaces)

\* LinuxVfsIpcServerEndPoint::new / LinuxVfsIpcClientEndPoint::new with the
\* handles in the places rd and wr: the server's returns EBADF for a Closed
\* handle (its fcntl calls succeed on open descriptors)
EndPoint_new(P, rd, wr, server) ==
    IF server /\ (P.fd[rd] # "Open" \/ P.fd[wr] # "Open" \/ P.raw[rd] \notin P.kernel
                    \/ P.raw[wr] \notin P.kernel)
    THEN Fails(Returns(P, "EBADF"), {rd, wr})
    ELSE Returns(Move(Move(P, rd, "ep_read"), wr, "ep_write"), "Ok")

\* into_server_end_point_postfork(self): close_read of s2c_pipe, close_write
\* of c2s_pipe, then the end point of c2s_pipe.read_fd and s2c_pipe.write_fd;
\* what is left of self is dropped, and all of self when a close fails
into_server_end_point_postfork(P) ==
    LET close_read == close(P, "s2c_read")
        c == IF close_read.result = "Ok" THEN close(close_read.P, "c2s_write")
             ELSE close_read
        e == EndPoint_new(c.P, "c2s_read", "s2c_write", TRUE)
        d == DropAll(e.P, ChannelPlaces)
    IN  IF c.result = "Ok"
        THEN [d EXCEPT !.result = e.result, !.panics = e.panics \/ d.panics]
        ELSE Fails(c, ChannelPlaces)

\* into_client_end_point_postfork(self)
into_client_end_point_postfork(P) ==
    LET close_write == close(P, "s2c_write")
        c == IF close_write.result = "Ok" THEN close(close_write.P, "c2s_read")
             ELSE close_write
        e == EndPoint_new(c.P, "s2c_read", "c2s_write", FALSE)
        d == DropAll(e.P, ChannelPlaces)
    IN  IF c.result = "Ok"
        THEN [d EXCEPT !.result = e.result, !.panics = e.panics \/ d.panics]
        ELSE Fails(c, ChannelPlaces)

\* new_prefork: Pipe::new()? for s2c_pipe, then for c2s_pipe; when the second
\* fails the first pipe is dropped
new_prefork(P) ==
    LET first == Pipe_new(P, "s2c")
        second == Pipe_new(first.P, "c2s")
    IN  IF first.result # "Ok" THEN first
        ELSE IF second.result # "Ok" THEN Fails(second, {"s2c_read", "s2c_write"})
        ELSE second

\* an operation of the process has returned: what it leaves (only Fd::Open
\* holds a descriptor)
Done(op, h, r) ==
    /\ ~panicked
    /\ fds' = r.P.fd
    /\ raw' = [pl \in Places |-> IF r.P.fd[pl] = "Open" THEN r.P.raw[pl] ELSE 0]
    /\ kernel' = r.P.kernel
    /\ panicked' = r.panics
    /\ last' = [NoOp EXCEPT !.op = op, !.path = h, !.result = r.result,
                            !.content = r.value]
    /\ UNCHANGED <<connection_infos, live_maps, regions, timestamp, poll_read,
                   poll_write, shm, segs, vfs, views, pipe, loop>>
    /\ UNCHANGED end_vars

\* ------------------------------------------------- initial states
\* the endpoints of the blocking channel, before any call
EndsInit ==
    /\ written = [ch \in Chans |-> 0]
    /\ wbuf = [ch \in Chans |-> <<>>]
    /\ wst = [ch \in Chans |-> WriterIdle]
    /\ rbuf = [ch \in Chans |-> <<>>]
    /\ rst = [ch \in Chans |-> ReaderIdle]
    /\ recvd = [ch \in Chans |-> <<>>]
    /\ wclosed = {}

\* LinuxVfsIpcServer::new, and a Vfs that holds a content for every file
ServerNew ==
    /\ panicked = FALSE
    /\ connection_infos = <<>>
    /\ live_maps = <<>>
    /\ regions = <<>>
    /\ timestamp = 0
    /\ poll_read = {}
    /\ poll_write = {}
    /\ shm = <<>>
    /\ segs = <<>>
    /\ vfs = [p \in CanonPaths |-> <<5>>]
    /\ views = <<>>
    /\ last = NoOp
    /\ loop = NotRolling
    /\ fds = [h \in Places |-> "None"]
    /\ raw = [h \in Places |-> 0]
    /\ kernel = {0, 1, 2}

\* ------------------------------------------------- the blocking channel
\* one direction of one channel carries a script of 1..MaxMsgs messages
CodecInit ==
    /\ pipe = [ch \in Chans |-> <<>>]
    /\ \E c0 \in {<<1, "c2s">>, <<1, "s2c">>} :
         \E s \in SeqsUpTo(Messages(c0), MaxMsgs) \ {<<>>} :
            script = [ch \in Chans |-> IF ch = c0 THEN s ELSE <<>>]
    /\ EndsInit
    /\ ServerNew

BlockingWriteCall == \E ch \in Chans : blocking_write_impl_call(ch)

WriteAllStep == \E ch \in Chans : \E res \in 1..Len(wbuf[ch]) : write_all_step(ch, res)

\* the reader calls once per message of the script, as the tests do
BlockingReadCall ==
    \E ch \in Chans :
        /\ Len(recvd[ch]) < Len(script[ch])
        /\ blocking_read_impl_call(ch)

ReadAndAppend ==
    \E ch \in Chans : \E res \in 1..Len(pipe[ch]) : read_and_append(ch, res)

CodecNext ==
    \/ BlockingWriteCall
    \/ WriteAllStep
    \/ BlockingReadCall
    \/ ReadAndAppend

SpecCodec == CodecInit /\ [][CodecNext]_vars

\* ------------------------------------------------- claims C1, C2
\* the wire format: [u32 payload length][payload]
Frame(T, m) == serialize_u32(Len(serialize(T, m))) \o serialize(T, m)

RECURSIVE Frames(_, _)
Frames(T, ms) ==
    IF ms = <<>> THEN <<>> ELSE Frame(T, Head(ms)) \o Frames(T, Tail(ms))

\* the frame writes begun so far on ch
Started(ch) == written[ch] + (IF wst[ch].pc = "write_all" THEN 1 ELSE 0)

\* C1: every blocking frame read returns Ok with exactly the message the
\* blocking frame write at that position wrote, however the reads split
\* the frame.
C1_RoundTrip ==
    \A ch \in Chans : \A i \in 1..Len(recvd[ch]) :
        /\ recvd[ch][i].ok
        /\ recvd[ch][i].msg = script[ch][i]

\* a frame has been returned by a call that needed at least two partial
\* reads
C1_Witness ==
    \E ch \in Chans :
        /\ Len(recvd[ch]) >= 1
        /\ rst[ch] = [pc |-> "idle", reads |-> 2]
        /\ recvd[ch][Len(recvd[ch])].ok
        /\ recvd[ch][Len(recvd[ch])].msg = script[ch][Len(recvd[ch])]

\* C2: the reads return the written messages one per call in the order
\* written; the read buffer carries exactly the bytes read beyond the frames
\* returned so far, so it is empty once the last written frame has been
\* read; the write buffer is empty after every successful frame write.
C2_FifoCarry ==
    \A ch \in Chans :
        /\ Len(recvd[ch]) <= Started(ch)
        /\ recvd[ch] = [i \in 1..Len(recvd[ch]) |-> [ok |-> TRUE, msg |-> script[ch][i]]]
        /\ Frames(MsgType(ch), SubSeq(script[ch], 1, Len(recvd[ch])))
             \o rbuf[ch] \o pipe[ch]
             \o SubSeq(wbuf[ch], wst[ch].start_pos + 1, Len(wbuf[ch]))
           = Frames(MsgType(ch), SubSeq(script[ch], 1, Started(ch)))
        /\ (wst[ch].pc = "idle" /\ Len(recvd[ch]) = written[ch])
              => (rbuf[ch] = <<>> /\ pipe[ch] = <<>>)
        /\ wst[ch].pc = "idle" => wbuf[ch] = <<>>

\* a read took in a whole frame and part of the next one: the first message
\* has been returned and surplus bytes are carried to the next call
C2_Witness ==
    \E ch \in Chans :
        /\ Len(recvd[ch]) = 1
        /\ rst[ch].pc = "idle"
        /\ rbuf[ch] # <<>>
        /\ Len(script[ch]) >= 2

\* ------------------------------------------------- the server's regions
\* the length of a serialized reply: every name has the length of this one
ReplyBytes == Len(serialize("VfsReplyMsg", [NoReply EXCEPT !.path = shm_name_of(PathA, 0)]))

\* the requests of the clients
ServerRequests == [tag : {"OpenFile", "CloseFile"}, path : Spellings]

RECURSIVE Orders(_)
Orders(S) ==
    IF S = {} THEN {<<>>}
    ELSE UNION {{<<x>> \o o : o \in Orders(S \ {x})} : x \in S}

ServerInit ==
    /\ pipe = [ch \in Chans |-> <<>>]
    /\ script = [ch \in Chans |-> <<>>]
    /\ EndsInit
    /\ ServerNew

Connect == \E tok \in Tokens : AddConnection(tok)

\* A request of a synchronous client, which has read the reply to its last
\* one; the pipe takes the reply at once. An open is taken while it leaves
\* no more than MaxRegions segments.
RequestOf(requests) ==
    \E tok \in Tokens, req \in requests, load \in LoadResults, user \in UserResults :
        /\ pipe[<<tok, "s2c">>] = <<>>
        /\ req.tag = "OpenFile" =>
               Len(try_setup_mmap(req.path, load, user).segs) <= MaxRegions
        /\ handle_request(tok, req, load, user,
                          PipeWrites(pipe[<<tok, "s2c">>], ReplyBytes))
        /\ UNCHANGED end_vars
        /\ UNCHANGED loop
        /\ UNCHANGED fd_vars

Request == RequestOf(ServerRequests)

RemoveEndPoint ==
    \E tok \in Tokens :
        \E order \in (IF tok \in DOMAIN connection_infos
                       THEN Orders(DOMAIN connection_infos[tok].opened_files)
                       ELSE {<<>>}) :
            remove_server_end_point(tok, order)

VfsStep == \E cont \in Contents : VfsChange(PathA, cont)

ClientReadsReply ==
    \E tok \in Tokens : peer_read(<<tok, "s2c">>, Len(pipe[<<tok, "s2c">>]))

Attach == \E v \in Views, reply \in ClientReplies : from_reply(v, reply)

Detach == \E v \in Views : file_handle_close(v)

MapsNext ==
    \/ Connect
    \/ Request
    \/ RemoveEndPoint
    \/ ClientReadsReply

SpecMaps == ServerInit /\ [][MapsNext]_vars

\* ------------------------------------------------- the content of a region
\* the requests for one file, under its two spellings
ContentRequests == [tag : {"OpenFile", "CloseFile"}, path : {PathA, PathDotA}]

ContentRequest == RequestOf(ContentRequests)

ContentNext ==
    \/ Connect
    \/ ContentRequest
    \/ RemoveEndPoint
    \/ VfsStep
    \/ ClientReadsReply
    \/ Attach
    \/ Detach

SpecContent == ServerInit /\ [][ContentNext]_vars

\* ------------------------------------------------- a client's file handles
GetFileRef == \E v \in Views : get_file_ref_call(v)

DropFileHandle == \E v \in Views : file_handle_drop(v)

ClosedFileHandle == \E v \in Views : file_handle_closed(v)

HandleNext ==
    \/ Connect
    \/ ContentRequest
    \/ Attach
    \/ Detach
    \/ GetFileRef
    \/ DropFileHandle
    \/ ClosedFileHandle

SpecHandle == ServerInit /\ [][HandleNext]_vars

\* ------------------------------------------------- a reply on the wire
\* the one connection whose replies are followed
ReplyTokens == {1}

ReplyConnect == \E tok \in ReplyTokens : AddConnection(tok)

\* A client opens a file; the Vfs serves it; script notes the reply the
\* server made for the client.
ReplyRequest ==
    \E tok \in ReplyTokens, path \in CanonPaths :
        /\ tok \in DOMAIN connection_infos
        /\ Len(script[<<tok, "s2c">>]) < MaxMsgs
        /\ handle_request(tok, [tag |-> "OpenFile", path |-> path], "Ok", 1,
                          PipeWrites(pipe[<<tok, "s2c">>],
                                     Len(connection_infos[tok].write_state) + ReplyBytes))
        /\ script' = [script EXCEPT ![<<tok, "s2c">>] = Append(@, last'.reply)]
        /\ UNCHANGED <<written, wbuf, wst, rbuf, rst, recvd, wclosed, loop>>
        /\ UNCHANGED fd_vars

\* the write fd of a connection with pending output is writable
HandleWrite ==
    \E tok \in ReplyTokens :
        /\ tok \in DOMAIN connection_infos
        /\ handle_write(tok, PipeWrites(pipe[<<tok, "s2c">>],
                                        Len(connection_infos[tok].write_state)))

\* the client's blocking_read_reply, once for every request it has made
BlockingReadReply ==
    \E tok \in ReplyTokens :
        /\ Len(recvd[<<tok, "s2c">>]) < Len(script[<<tok, "s2c">>])
        /\ blocking_read_impl_call(<<tok, "s2c">>)

ReplyReadAndAppend ==
    \E tok \in ReplyTokens :
        \E res \in 1..Len(pipe[<<tok, "s2c">>]) : read_and_append(<<tok, "s2c">>, res)

ReplyNext ==
    \/ ReplyConnect
    \/ ReplyRequest
    \/ HandleWrite
    \/ BlockingReadReply
    \/ ReplyReadAndAppend

SpecReply == ServerInit /\ [][ReplyNext]_vars

\* ------------------------------------------------- the server's event loop
\* a frame whose length prefix counts the prefix too: the frame handle_read
\* takes apart
InclusiveFrame(m) ==
    LET payload == serialize("VfsRequestMsg", m)
    IN  serialize_u32(Len(payload) + 4) \o payload

Malformed == [tag |-> "Malformed", path |-> <<>>]

\* the request m in the frame that blocking_write_impl makes, whose length
\* prefix counts the payload only
Blocking(m) == [tag |-> "Blocking", path |-> m.path]

\* What the peers write: requests in such frames, a frame as
\* blocking_write_impl makes it, a length prefix below 4, a payload of no
\* variant, and the first bytes of a frame. `sent`
\* is what handle_read can take out of the bytes, or the request that
\* blocking_write_impl has framed.
LoopWrites ==
    {[bytes |-> InclusiveFrame(m), sent |-> m] :
        m \in {[tag |-> "OpenFile", path |-> PathA],
               [tag |-> "CloseFile", path |-> PathA]}}
    \cup {[bytes |-> Frame("VfsRequestMsg", [tag |-> "OpenFile", path |-> PathA]),
           sent  |-> Blocking([tag |-> "OpenFile", path |-> PathA])],
          [bytes |-> serialize_u32(0), sent |-> Malformed],
          [bytes |-> serialize_u32(16) \o LE(9, 4) \o LE(0, 8), sent |-> Malformed],
          [bytes |-> <<18, 0>>, sent |-> Malformed]}

\* roll_the_loop borrows the server: the other calls are made while it is
\* not running
NotInLoop == loop.pc \in {"idle", "returned"}

LoopConnect == NotInLoop /\ \E tok \in Tokens : AddConnection(tok)

AddServerEndPoint == NotInLoop /\ \E tok \in Tokens : add_server_end_point(tok)

LoopRemoveEndPoint == NotInLoop /\ RemoveEndPoint

RollTheLoop == roll_the_loop_call

Readable == \E tok \in Tokens : roll_the_loop_readable(tok)

HandleRead ==
    /\ loop.pc = "frames"
    /\ \E wres \in {PipeWrites(pipe[<<loop.tok, "s2c">>],
                            Len(connection_infos[loop.tok].write_state) + ReplyBytes)} :
          handle_read("Ok", 1, wres)

Writable ==
    \E tok \in Tokens :
        /\ tok \in DOMAIN connection_infos
        /\ roll_the_loop_writable(tok, PipeWrites(pipe[<<tok, "s2c">>],
                                                  Len(connection_infos[tok].write_state)))

PeerWrite ==
    \E tok \in Tokens, w \in LoopWrites :
        /\ Len(script[<<tok, "c2s">>]) < MaxMsgs
        /\ peer_write(<<tok, "c2s">>, w.bytes, w.sent)

PeerClose == \E tok \in Tokens : Fd_close(<<tok, "c2s">>)

\* the client takes all the replies its pipe holds
PeerRead ==
    \E tok \in Tokens : peer_read(<<tok, "s2c">>, Len(pipe[<<tok, "s2c">>]))

LoopNext ==
    \/ LoopConnect
    \/ AddServerEndPoint
    \/ LoopRemoveEndPoint
    \/ RollTheLoop
    \/ Readable
    \/ HandleRead
    \/ Writable
    \/ PeerWrite
    \/ PeerClose
    \/ PeerRead

SpecLoop == ServerInit /\ [][LoopNext]_vars

\* ------------------------------------------------- a frame read at the end
\* the pipe a client reads its replies from
EofChan == <<1, "s2c">>

\* What the peer writes before it closes: a whole frame of a reply, the
\* first two bytes of a length prefix, a prefix and a part of its payload.
EofWrites ==
    LET reply == [path |-> PathA, length |-> 1, user_data |-> 1]
        frame == Frame("VfsReplyMsg", reply)
    IN  {[bytes |-> frame, sent |-> reply],
         [bytes |-> SubSeq(frame, 1, 2), sent |-> Malformed],
         [bytes |-> SubSeq(frame, 1, 6), sent |-> Malformed]}

EofPeerWrite ==
    \E w \in EofWrites :
        /\ Len(script[EofChan]) < MaxMsgs
        /\ peer_write(EofChan, w.bytes, w.sent)

EofClose == Fd_close(EofChan)

\* blocking_read_reply
EofReadCall ==
    /\ Len(recvd[EofChan]) < MaxMsgs
    /\ blocking_read_impl_call(EofChan)

EofReadAndAppend ==
    \E res \in 1..Len(pipe[EofChan]) : read_and_append(EofChan, res)

EofRead == read_and_append_eof(EofChan)

EofNext ==
    \/ EofPeerWrite
    \/ EofClose
    \/ EofReadCall
    \/ EofReadAndAppend
    \/ EofRead

SpecEof == ServerInit /\ [][EofNext]_vars

\* ------------------------------------------------- whole-buffer transfers
\* the inputs of the tests: byte sequences, the empty one too
PipeInputs == SeqsUpTo({1, 2}, MaxInput)

\* the pipe of check_write_read and the pipe of threaded_write_read
AllChan == <<1, "c2s">>
TillCloseChan == <<2, "c2s">>

PipeInit ==
    /\ pipe = [ch \in Chans |-> <<>>]
    /\ \E c0 \in {AllChan, TillCloseChan}, input \in PipeInputs :
          script = [ch \in Chans |-> IF ch = c0 THEN <<input>> ELSE <<>>]
    /\ EndsInit
    /\ ServerNew

WriteAll == \E ch \in {AllChan, TillCloseChan} : write_all_call(ch)

\* a write takes no more bytes than the pipe has room for
PipeWriteAllStep ==
    \E ch \in {AllChan, TillCloseChan} :
        \E res \in 1..(SmallPipe - Len(pipe[ch])) : write_all_step(ch, res)

\* threaded_write_read: the writer closes its end when write_all has returned
CloseWrite ==
    /\ script[TillCloseChan] # <<>>
    /\ written[TillCloseChan] = Len(script[TillCloseChan])
    /\ Fd_close(TillCloseChan)

\* prop_read_write: read_all of input.len() bytes when write_all has returned
ReadAll ==
    /\ written[AllChan] = 1
    /\ recvd[AllChan] = <<>>
    /\ read_all_call(AllChan, Len(script[AllChan][1]))

ReadAllStep ==
    /\ rst[AllChan].pc = "read_all"
    /\ \E res \in 0..SmallPipe : read_all_step(AllChan, Len(script[AllChan][1]), res)

\* threaded_write_read: the reader, a thread of its own
ReadTillClose ==
    /\ script[TillCloseChan] # <<>>
    /\ recvd[TillCloseChan] = <<>>
    /\ read_till_close_call(TillCloseChan)

ReadTillCloseStep == \E res \in 0..SmallPipe : read_till_close_step(TillCloseChan, res)

PipeNext ==
    \/ WriteAll
    \/ PipeWriteAllStep
    \/ CloseWrite
    \/ ReadAll
    \/ ReadAllStep
    \/ ReadTillClose
    \/ ReadTillCloseStep

SpecPipe == PipeInit /\ [][PipeNext]_vars

\* the writer and the reader are threads that run, and their syscalls return
SpecPipeFair ==
    /\ SpecPipe
    /\ WF_vars(WriteAll \/ PipeWriteAllStep \/ CloseWrite)
    /\ WF_vars(ReadTillClose \/ ReadTillCloseStep)

\* ------------------------------------------------- handles of a process
\* the descriptors the tests hand to Fd::from_raw: an invalid one, and stdout
RawInputs == {-1, 1}

Locals == {"fd1", "fd2"}
EndPointPlaces == {"ep_read", "ep_write"}
PipePlaces(p) == {read_fd(p), write_fd(p)}

\* a value of type Fd lives in the place
Lives(h) == fds[h] # "None"

FromRaw(h, n) ==
    /\ ~Lives(h)
    /\ Done("Fd::from_raw", h, from_raw(Process, h, n))

FdClose(h) ==
    /\ Lives(h)
    /\ Done("Fd::close", h, close(Process, h))

FdTryClose(h) ==
    /\ Lives(h)
    /\ Done("Fd::try_close", h, try_close(Process, h))

FdTakeRaw(h) ==
    /\ Lives(h)
    /\ Done("Fd::take_raw", h, take_raw(Process, h))

\* let fd3 = fd2
FdMove(src, dst) ==
    /\ Lives(src)
    /\ ~Lives(dst)
    /\ Done("move", src, Returns(Move(Process, src, dst), "Ok"))

\* the values that own handles, and the places of their handles
Owners == Locals \cup Pipes \cup {"end_point"}
PlacesOf(o) ==
    IF o \in Locals THEN {o} ELSE IF o \in Pipes THEN PipePlaces(o) ELSE EndPointPlaces

\* a local handle, a pipe or an end point goes out of scope
Discard(o) ==
    /\ \A h \in PlacesOf(o) : Lives(h)
    /\ Done("drop", o, DropAll(Process, PlacesOf(o)))

PipeNew(p) ==
    /\ \A h \in PipePlaces(p) : ~Lives(h)
    /\ Done("Pipe::new", p, Pipe_new(Process, p))

PipeClose(p) ==
    /\ \A h \in PipePlaces(p) : Lives(h)
    /\ Done("Pipe::close", p, Pipe_close(Process, p))

PipeTryClose(p) ==
    /\ \A h \in PipePlaces(p) : Lives(h)
    /\ Done("Pipe::try_close", p, Pipe_try_close(Process, p))

NewPrefork ==
    /\ \A h \in ChannelPlaces : ~Lives(h)
    /\ Done("new_prefork", "channel", new_prefork(Process))

IntoServerEndPoint ==
    /\ \A h \in ChannelPlaces : Lives(h)
    /\ \A h \in EndPointPlaces : ~Lives(h)
    /\ Done("into_server_end_point_postfork", "channel",
            into_server_end_point_postfork(Process))

IntoClientEndPoint ==
    /\ \A h \in ChannelPlaces : Lives(h)
    /\ \A h \in EndPointPlaces : ~Lives(h)
    /\ Done("into_client_end_point_postfork", "channel",
            into_client_end_point_postfork(Process))

EndPointClose ==
    /\ \A h \in EndPointPlaces : Lives(h)
    /\ Done("EndPoint::close", "end_point", EndPoint_close(Process))

\* the tests of Fd: handles in local variables
FdNext ==
    \/ \E h \in Locals, n \in RawInputs : FromRaw(h, n)
    \/ \E h \in Locals : FdClose(h)
    \/ \E h \in Locals : FdTryClose(h)
    \/ \E h \in Locals : FdTakeRaw(h)
    \/ \E src, dst \in Locals : FdMove(src, dst)
    \/ \E h \in Locals : Discard(h)

SpecFd == ServerInit /\ [][FdNext]_vars

\* pipes, a channel and its end point
ChannelNext ==
    \/ \E h \in Places \ Locals : FdClose(h)
    \/ \E h \in Places \ Locals : FdTryClose(h)
    \/ \E h \in Places \ Locals : FdTakeRaw(h)
    \/ \E p \in Pipes : Discard(p)
    \/ Discard("end_point")
    \/ \E p \in Pipes : PipeNew(p)
    \/ \E p \in Pipes : PipeClose(p)
    \/ \E p \in Pipes : PipeTryClose(p)
    \/ NewPrefork
    \/ IntoServerEndPoint
    \/ IntoClientEndPoint
    \/ EndPointClose

SpecChannel == ServerInit /\ [][ChannelNext]_vars

\* ------------------------------------------------- claims about replies
\* C3: every result of the client's blocking_read_reply is Ok with the reply
\* the server built for that request, in the order of the requests.
C3_ReplyDecoded ==
    \A tok \in ReplyTokens :
        \A i \in 1..Len(recvd[<<tok, "s2c">>]) :
            recvd[<<tok, "s2c">>][i] = [ok |-> TRUE, msg |-> script[<<tok, "s2c">>][i]]

\* a blocking_read_reply has returned
C3_Witness == \E tok \in ReplyTokens : Len(recvd[<<tok, "s2c">>]) > 0

\* ------------------------------------------------- claims about regions
RegionIds == 1..Len(regions)

Referenced(mi) == StrongCount(connection_infos, mi) > 0

Published(mi) ==
    /\ regions[mi].shm_name \in DOMAIN shm
    /\ shm[regions[mi].shm_name] = regions[mi].seg

Live(mi) == Published(mi) /\ Referenced(mi)

AnsweredOpen == last.op = "open" /\ last.result = "Ok"

\* the region the connection of the last request holds for the path of it
AnsweredRegion == connection_infos[last.tok].opened_files[last.path]

\* C4: an open of a path, under any spelling, for whose canonical path some
\* connection references a region creates no segment and publishes no name,
\* and its reply, when there is one, names that region, which the
\* connection then holds for the path.
C4_SameRegion ==
    [][\A mi \in RegionIds :
          (/\ last'.op = "open"
           /\ Referenced(mi)
           /\ RealPath(regions[mi].real_path) = RealPath(last'.path))
          => /\ segs' = segs
             /\ shm' = shm
             /\ regions' = regions
             /\ last'.result = "Ok" =>
                   /\ last'.reply.path = regions[mi].shm_name
                   /\ last'.reply.length = regions[mi].length
                   /\ connection_infos'[last'.tok].opened_files[last'.path] = mi]_vars

\* an open was answered with a region that another connection holds too
C4_Witness ==
    /\ AnsweredOpen
    /\ ~last.created
    /\ \E tok \in DOMAIN connection_infos, sp \in Spellings :
          /\ tok # last.tok
          /\ sp \in DOMAIN connection_infos[tok].opened_files
          /\ connection_infos[tok].opened_files[sp] = AnsweredRegion

\* C5: in every state a region is published exactly when the open-files
\* table of some connection references it.
C5_PublishedIffReferenced == \A mi \in RegionIds : Published(mi) <=> Referenced(mi)

\* C6: the registry holds exactly the referenced regions, each under its
\* path, and no name is published when no connection is left.
C6_RegistryExact ==
    /\ \A p \in DOMAIN live_maps : Referenced(live_maps[p])
    /\ \A mi \in RegionIds :
          Referenced(mi) => /\ regions[mi].real_path \in DOMAIN live_maps
                            /\ live_maps[regions[mi].real_path] = mi
    /\ connection_infos = <<>> => shm = <<>>

\* C7: no two regions the server has set up have the same name.
C7_FreshNames ==
    \A i, j \in RegionIds : i # j => regions[i].shm_name # regions[j].shm_name

\* C8: no two live regions are for the same canonical path.
C8_OneLivePerPath ==
    \A i, j \in RegionIds :
        (/\ Live(i)
         /\ Live(j)
         /\ RealPath(regions[i].real_path) = RealPath(regions[j].real_path))
        => i = j

\* a live region is held under both spellings of its path, by two
\* connections
C8_Witness ==
    \E mi \in RegionIds, t1, t2 \in DOMAIN connection_infos :
        /\ Live(mi)
        /\ t1 # t2
        /\ PathA \in DOMAIN connection_infos[t1].opened_files
        /\ PathDotA \in DOMAIN connection_infos[t2].opened_files
        /\ connection_infos[t1].opened_files[PathA] = mi
        /\ connection_infos[t2].opened_files[PathDotA] = mi

\* C9 (as claimed): the reply of an answered open has the length of the
\* content the Vfs holds at the time of the request, and the bytes read
\* through the region it names are that content.
C9_RequestTimeContent ==
    AnsweredOpen => /\ last.reply.length = Len(last.content)
                    /\ last.served = last.content

\* C9 (amended): the reply of an answered open names the region the
\* connection then holds, its length and the bytes read through it are those
\* copied into the region when it was set up, and they are the content at
\* the time of the request when the request set the region up.
C9_CreationTimeContent ==
    AnsweredOpen =>
        /\ last.reply.path = regions[AnsweredRegion].shm_name
        /\ last.reply.length = Len(segs[regions[AnsweredRegion].seg])
        /\ last.served = segs[regions[AnsweredRegion].seg]
        /\ last.created => /\ last.reply.length = Len(last.content)
                            /\ last.served = last.content

\* an open was answered with a region set up before the content changed
C9_Witness == AnsweredOpen /\ ~last.created /\ last.served # last.content

\* C10: an attached view shows the bytes it showed when it was attached.
C10_ViewsStable ==
    \A v \in DOMAIN views :
        views[v].state = "Open" => get_file_ref(v).value = views[v].first

\* a view is attached to a segment whose region is retired, and a live
\* region for the same path has another content
C10_Witness ==
    \E v \in DOMAIN views, old, new \in RegionIds :
        /\ views[v].state = "Open"
        /\ regions[old].seg = views[v].seg
        /\ ~Published(old)
        /\ Live(new)
        /\ regions[new].real_path = regions[old].real_path
        /\ segs[regions[new].seg] # segs[regions[old].seg]

\* C11: no attachment is made under the name of a region that is retired: a
\* from_reply that succeeds attaches under no name that a region bears which
\* is not published any more.
C11_RetiredNameFails ==
    [][\A v \in Views :
          (v \notin DOMAIN views /\ v \in DOMAIN views') =>
              \A old \in RegionIds :
                  ~(/\ ~Published(old)
                    /\ regions[old].shm_name \in DOMAIN shm
                    /\ shm[regions[old].shm_name] = views'[v].seg)]_vars

\* C12: a CloseFile for a path that the connection's open-files table does
\* not hold yields CloseNonOpenedFile and leaves the tables of all
\* connections, the registry, the published names and the segments as they
\* were.
C12_CloseNonOpened ==
    [][(/\ last'.op = "close"
        /\ last'.tok \in DOMAIN connection_infos
        /\ last'.path \notin DOMAIN connection_infos[last'.tok].opened_files)
       => /\ last'.result = "CloseNonOpenedFile"
          /\ connection_infos' = connection_infos
          /\ live_maps' = live_maps
          /\ regions' = regions
          /\ shm' = shm
          /\ segs' = segs
          /\ \A mi \in RegionIds :
                StrongCount(connection_infos', mi) = StrongCount(connection_infos, mi)]_vars

\* a CloseFile was refused on a connection that holds the file's live region
\* under another spelling
C12_Witness ==
    /\ last.op = "close"
    /\ last.result = "CloseNonOpenedFile"
    /\ \E sp \in DOMAIN connection_infos[last.tok].opened_files :
          /\ RealPath(sp) = RealPath(last.path)
          /\ Live(connection_infos[last.tok].opened_files[sp])

IsPrefix(a, b) == Len(a) <= Len(b) /\ SubSeq(b, 1, Len(a)) = a

\* C13: a CloseFile for a file that was not opened does not end the event
\* loop, and the requests of a connection all of whose frames are well formed
\* are handed to the handler in the order sent, none of them twice.
C13_CloseRecoverable ==
    /\ ~(loop.pc = "returned" /\ loop.result = "CloseNonOpenedFile")
    /\ \A tok \in Tokens :
          (\A i \in 1..Len(script[<<tok, "c2s">>]) :
              script[<<tok, "c2s">>][i].tag \in {"OpenFile", "CloseFile"})
              => IsPrefix(recvd[<<tok, "c2s">>], script[<<tok, "c2s">>])

ProtocolErrors == {"DeserializeError", "PipeCloseMiddle"}

\* C14: a protocol error of a connection (a payload that does not decode,
\* an end of file in the middle of a frame) takes that connection out of the
\* table and leaves the event loop running.
C14_ProtocolErrorLocal ==
    loop.result \in ProtocolErrors =>
        /\ loop.pc # "returned"
        /\ loop.tok \notin DOMAIN connection_infos

\* C15: a call of add_server_end_point returns, and then the connection is
\* in the table with an empty open-files table and empty buffers; no event
\* ends the loop with TokenNotFound.
C15_AddedConnectionExists ==
    /\ last.op = "add" =>
          /\ ~panicked
          /\ last.tok \in DOMAIN connection_infos
          /\ connection_infos[last.tok] = NewConnectionInfo
    /\ loop.result # "TokenNotFound"

\* the entries of the open-files table of connection tok that are for mi
Held(tok, mi) ==
    Cardinality({sp \in DOMAIN connection_infos[tok].opened_files :
                    connection_infos[tok].opened_files[sp] = mi})

\* C16: the removal of a connection that is in the table returns, having
\* taken the connection out of the table and out of the poll, having given
\* up each of its region references and unpublished the regions it held the
\* last reference of; regions that other connections reference stay
\* published and the other connections are as they were.
C16_RemovalEffects ==
    [][(last'.op = "remove" /\ last'.tok \in DOMAIN connection_infos) =>
          LET tok == last'.tok
          IN  /\ ~panicked'
              /\ last'.result = "Ok"
              /\ tok \notin DOMAIN connection_infos'
              /\ tok \notin poll_read'
              /\ tok \notin poll_write'
              /\ \A mi \in RegionIds :
                    /\ StrongCount(connection_infos', mi) =
                          StrongCount(connection_infos, mi) - Held(tok, mi)
                    /\ (Held(tok, mi) > 0 /\ StrongCount(connection_infos', mi) = 0)
                          => regions[mi].shm_name \notin DOMAIN shm'
                    /\ (Published(mi) /\ StrongCount(connection_infos', mi) > 0)
                          => /\ regions[mi].shm_name \in DOMAIN shm'
                             /\ shm'[regions[mi].shm_name] = shm[regions[mi].shm_name]
              /\ \A other \in DOMAIN connection_infos \ {tok} :
                    /\ other \in DOMAIN connection_infos'
                    /\ connection_infos'[other] = connection_infos[other]]_vars

\* C17: the removal of an id that is not in the table does not return the
\* error RemoveUnknownClient to its caller: it panics.
C17_RemoveUnknownFatal ==
    (last.op = "remove" /\ last.result = "RemoveUnknownClient") => panicked

\* C18: a read_all of len(b) bytes that follows write_all(b) returns Ok with
\* exactly the bytes b, whatever the counts of the single writes and reads.
C18_WriteAllReadAll ==
    \A i \in 1..Len(recvd[AllChan]) :
        recvd[AllChan][i] = Transferred("read_all", TRUE, script[AllChan][i])

\* a read_all that took two reads or more has returned
C18_Witness ==
    /\ recvd[AllChan] # <<>>
    /\ recvd[AllChan][1].ok
    /\ Len(recvd[AllChan][1].bytes) = SmallPipe
    /\ rst[AllChan].reads >= 2

\* the writer has returned and closed, the reader has returned the input
TillCloseDone ==
    /\ wst[TillCloseChan].pc = "idle"
    /\ TillCloseChan \in wclosed
    /\ rst[TillCloseChan].pc = "idle"
    /\ recvd[TillCloseChan] =
          <<Transferred("read_till_close", TRUE, script[TillCloseChan][1])>>

\* C19: with a writer that does write_all(b) and closes, and a reader that
\* does read_till_close on the same pipe, both return under every
\* interleaving and the reader returns exactly b.
C19_ReadTillClose == (script[TillCloseChan] # <<>>) ~> TillCloseDone

\* the reader has returned an input longer than the pipe
C19_Witness ==
    /\ TillCloseDone
    /\ Len(script[TillCloseChan][1]) > SmallPipe

\* C20: a read of the blocking frame read that meets the end of the file
\* (the pipe is empty, its write end closed, and no whole frame is in the
\* buffer) ends the call with an error.
C20_EofSurfaces ==
    [][(/\ rst[EofChan].pc = "read"
        /\ pipe[EofChan] = <<>>
        /\ EofChan \in wclosed
        /\ rst'[EofChan] # rst[EofChan])
       => /\ rst'[EofChan].pc = "idle"
          /\ Len(recvd'[EofChan]) = Len(recvd[EofChan]) + 1
          /\ ~recvd'[EofChan][Len(recvd'[EofChan])].ok]_vars

\* ------------------------------------------------- claims about handles
\* the operation op has just returned
Did(op) == last.op = op

\* C21: close() of an Open handle whose descriptor the system releases
\* leaves the handle Closed and returns Ok; close() of a Closed handle returns
\* an error and leaves it Closed; of two successive close() calls on one
\* handle the second fails.
C21_Close ==
    [][last'.op = "Fd::close" =>
        LET h == last'.path
        IN  /\ (fds[h] = "Open" /\ raw[h] \in kernel)
                => (fds'[h] = "Closed" /\ last'.result = "Ok")
            /\ fds[h] = "Closed" => (fds'[h] = "Closed" /\ last'.result # "Ok")
            /\ (Did("Fd::close") /\ last.path = h) => last'.result # "Ok"]_vars

\* the second close of a handle has failed
C21_Witness ==
    /\ Did("Fd::close")
    /\ last.result = "EBADF"
    /\ fds[last.path] = "Closed"
    /\ raw[last.path] = 0
    /\ 1 \notin kernel

\* C22: a handle that is dropped while Open panics, in whatever state the
\* process is; a handle that is dropped while Closed (closed with success, or
\* its descriptor taken out) does not, and neither does the variable a handle
\* was moved out of.
C22_DropPanicsIffOpen ==
    [][last'.op = "drop" =>
        /\ fds[last'.path] = "Open" => panicked'
        /\ fds[last'.path] = "Closed" => ~panicked'
        /\ \A h \in Places : fds[h] = "None" => fds'[h] = "None"]_vars

\* a Closed handle has been dropped, no handle is left, and descriptor 1 was
\* released by a close
C22_Witness ==
    /\ Did("drop")
    /\ ~panicked
    /\ \A h \in Locals : fds[h] = "None"
    /\ 1 \notin kernel

\* C23: a pipe or an end point is dropped without a panic exactly when both
\* its handles are Closed (one handle closed and the other not: a panic), and
\* after a close() of the pipe or end point that returned Ok both are.
C23_DropNeedsBothClosed ==
    [][/\ (last'.op = "drop" /\ last'.path \in Pipes \cup {"end_point"})
            => (~panicked' <=> \A h \in PlacesOf(last'.path) : fds[h] = "Closed")
       /\ (last'.op \in {"Pipe::close", "EndPoint::close"} /\ last'.result = "Ok")
            => \A h \in PlacesOf(last'.path) : fds'[h] = "Closed"]_vars

\* an end point made of a channel has been dropped after its close()
C23_Witness ==
    /\ Did("drop")
    /\ last.path = "end_point"
    /\ ~panicked
    /\ \A h \in ChannelPlaces \cup EndPointPlaces : fds[h] = "None"
    /\ kernel = {0, 1, 2}

\* C24: when the system refuses to release the descriptor, close() of an Open
\* handle returns an error and the handle stays Open with its descriptor; a
\* take_raw() that follows returns Ok with that descriptor and leaves the
\* handle Closed, and the drop that follows does not panic.
C24_FailedClose ==
    [][LET h == last'.path
       IN  /\ (last'.op = "Fd::close" /\ fds[h] = "Open" /\ raw[h] \notin kernel)
                => /\ last'.result # "Ok"
                   /\ fds'[h] = "Open"
                   /\ raw'[h] = raw[h]
           /\ (/\ last'.op = "Fd::take_raw"
               /\ Did("Fd::close") /\ last.path = h /\ last.result # "Ok"
               /\ fds[h] = "Open")
                => /\ last'.result = "Ok"
                   /\ last'.content = <<raw[h]>>
                   /\ fds'[h] = "Closed"
           /\ (/\ last'.op = "drop"
               /\ Did("Fd::take_raw") /\ last.path = h /\ last.result = "Ok")
                => ~panicked']_vars

\* the descriptor that is not open has been taken out of its handle
C24_Witness ==
    /\ Did("Fd::take_raw")
    /\ last.result = "Ok"
    /\ last.content = <<-1>>
    /\ fds[last.path] = "Closed"

\* C25: try_close() of an Open handle does what close() does and returns what
\* it returns; try_close() of a Closed handle returns Ok and changes nothing;
\* a second try_close() leaves the state the first has left.
C25_TryClose ==
    [][last'.op = "Fd::try_close" =>
        LET h == last'.path
            once == try_close(Process, h)
        IN  /\ fds[h] = "Open"
                => /\ fds' = close(Process, h).P.fd
                   /\ kernel' = close(Process, h).P.kernel
                   /\ last'.result = close(Process, h).result
            /\ fds[h] = "Closed" => (last'.result = "Ok" /\ UNCHANGED fd_vars)
            /\ try_close(once.P, h).P = once.P
            /\ once.result = "Ok" => try_close(once.P, h).result = "Ok"]_vars

\* try_close() has returned Ok for a handle that was Closed: no descriptor
\* has been released
C25_Witness ==
    /\ Did("Fd::try_close")
    /\ last.result = "Ok"
    /\ fds[last.path] = "Closed"
    /\ kernel = {0, 1, 2}

\* C26: take_raw() of an Open handle returns its descriptor and leaves the
\* handle Closed, and the descriptor is not released; take_raw() of a Closed
\* handle returns an error and changes nothing.
C26_TakeRaw ==
    [][last'.op = "Fd::take_raw" =>
        LET h == last'.path
        IN  /\ fds[h] = "Open"
                => /\ last'.result = "Ok"
                   /\ last'.content = <<raw[h]>>
                   /\ fds' = [fds EXCEPT ![h] = "Closed"]
                   /\ kernel' = kernel
            /\ fds[h] = "Closed" => (last'.result # "Ok" /\ UNCHANGED fd_vars)]_vars

\* descriptor 1 has been taken out of its handle and is still open
C26_Witness ==
    /\ Did("Fd::take_raw")
    /\ last.content = <<1>>
    /\ fds[last.path] = "Closed"
    /\ 1 \in kernel

\* the handles of the channel are as new_prefork leaves them
FourOpen == \A h \in ChannelPlaces : fds[h] = "Open"

\* the end point holds, Open, the handles that were in the places rd and wr;
\* the descriptors of the other two handles of the channel are released and
\* nothing of the channel is left
EndPointOf(rd, wr) ==
    /\ last'.result = "Ok"
    /\ ~panicked'
    /\ fds'["ep_read"] = "Open" /\ raw'["ep_read"] = raw[rd]
    /\ fds'["ep_write"] = "Open" /\ raw'["ep_write"] = raw[wr]
    /\ kernel' = kernel \ {raw[h] : h \in ChannelPlaces \ {rd, wr}}
    /\ Cardinality(kernel') = Cardinality(kernel) - 2
    /\ \A h \in ChannelPlaces : fds'[h] = "None"

\* C27: a channel that new_prefork has returned holds four Open handles;
\* into_server_end_point_postfork closes the read handle of s2c and the write
\* handle of c2s and returns an end point of the read handle of c2s and the
\* write handle of s2c, both Open; into_client_end_point_postfork is its
\* mirror image; when the end point's close() has returned, no handle of the
\* channel is Open and none of its descriptors is open in the process.
C27_ChannelSplit ==
    [][/\ (last'.op = "new_prefork" /\ last'.result = "Ok")
            => /\ \A h \in ChannelPlaces : fds'[h] = "Open" /\ raw'[h] \in kernel' \ kernel
               /\ Cardinality({raw'[h] : h \in ChannelPlaces}) = 4
       /\ (last'.op = "into_server_end_point_postfork" /\ FourOpen)
            => EndPointOf("c2s_read", "s2c_write")
       /\ (last'.op = "into_client_end_point_postfork" /\ FourOpen)
            => EndPointOf("s2c_read", "c2s_write")
       /\ (last'.op = "EndPoint::close" /\ \A h \in EndPointPlaces : fds[h] = "Open")
            => /\ last'.result = "Ok"
               /\ \A h \in EndPointPlaces : fds'[h] = "Closed" /\ raw[h] \notin kernel'
               /\ Cardinality(kernel') = Cardinality(kernel) - 2]_vars

\* the end point of a channel has been closed and the four descriptors of the
\* channel are released
C27_Witness ==
    /\ Did("EndPoint::close")
    /\ last.result = "Ok"
    /\ \A h \in EndPointPlaces : fds[h] = "Closed"
    /\ \A h \in ChannelPlaces : fds[h] = "None"
    /\ kernel = {0, 1, 2}

\* ------------------------------------------------- claims about file handles
\* C28: a client's file handle that is dropped while Open panics; a close()
\* of an Open handle returns Ok without a panic and leaves the handle Closed;
\* a Closed handle is dropped without a panic, and every close() and every
\* get_file_ref() of a Closed handle returns an error.
C28_FileHandleClose ==
    [][\A v \in DOMAIN views : last'.tok = v =>
        /\ (last'.op = "drop" /\ views[v].state = "Open") => last'.result = "panic"
        /\ (last'.op = "drop" /\ views[v].state = "Closed") => last'.result = "Ok"
        /\ (last'.op = "LinuxVfsIpcFileHandle::close" /\ views[v].state = "Open")
                => /\ last'.result = "Ok"
                   /\ views'[v].state = "Closed"
                   /\ ~views'[v].panicked
        /\ (/\ last'.op \in {"LinuxVfsIpcFileHandle::close", "get_file_ref"}
            /\ views[v].state = "Closed")
                => last'.result \notin {"Ok", "panic"}]_vars

\* ------------------------------------------------- claims about names
\* an OpenFile of the path finds no live region in the registry, and the
\* name its region would get is published
WouldCollide(path) ==
    LET c == canonicalize(path)
    IN  /\ c.ok
        /\ ~(c.path \in DOMAIN live_maps /\ upgrade(live_maps[c.path]))
        /\ generate_shm_name(c.path) \in DOMAIN shm

\* C29: the creation of a region under a name that is published fails, and
\* the segment published under the name keeps its content and its length.
C29_PublishedNameKept ==
    [][(last'.op = "open" /\ WouldCollide(last'.path))
        => /\ last'.result = "Err"
           /\ shm' = shm
           /\ segs' = segs
           /\ regions' = regions]_vars

\* an OpenFile has failed whose region would have got a published name
C29_Witness ==
    /\ last.op = "open"
    /\ last.result = "Err"
    /\ ~last.created
    /\ WouldCollide(last.path)

\* ------------------------------------------------- claims about the frames
\* the peer of the connection has written frames of blocking_write_impl only
BlockingOnly(ch) ==
    /\ script[ch] # <<>>
    /\ \A i \in 1..Len(script[ch]) : script[ch][i].tag = "Blocking"

\* the requests of the frames that handle_read has accumulated: all that were
\* written but those the pipe still holds
Accumulated(ch) ==
    LET open == [tag |-> "OpenFile", path |-> PathA]
        k == Len(script[ch]) - (Len(pipe'[ch]) \div Len(Frame("VfsRequestMsg", open)))
    IN  [i \in 1..k |-> open]

\* C30: when handle_read returns, every complete frame of the bytes it has
\* accumulated (frames of a 4-byte payload length and the payload, as
\* blocking_write_impl writes them) has been decoded; when it returns Ok each
\* has been executed once, in the order of the stream, and the read buffer
\* holds the trailing partial frame and nothing else.
C30_CompleteFramesExecuted ==
    [][LET ch == <<loop.tok, "c2s">>
       IN  (loop.pc = "frames" /\ loop'.pc # "frames" /\ BlockingOnly(ch))
            => /\ loop'.result # "DeserializeError"
               /\ loop'.pc = "poll"
                    => /\ recvd'[ch] = Accumulated(ch)
                       /\ connection_infos'[loop.tok].read_state = <<>>]_vars

\* ------------------------------------------------- replies and short writes
\* the connection whose outbound buffer is followed
WriteToken == 1

WriteChan == <<WriteToken, "s2c">>

\* the bytes a write takes when it takes less than it is offered
ShortWrite == 3

\* the writable events are followed until the pipe has been given this many
\* bytes
MaxStream == 40

\* The results of the write syscalls of one write loop that has n bytes to
\* write, to a pipe whose reader reads while the loop runs: the first write
\* takes everything, nothing (EAGAIN), or ShortWrite bytes (a reply longer
\* than PIPE_BUF is not written atomically; its user_data has any length);
\* after a short write the next write takes the bytes it is offered, or
\* nothing.
WriteResults(n) ==
    {<<n>>, <<WouldBlock>>}
    \cup (IF ShortWrite < n
          THEN {<<ShortWrite, WouldBlock>>, <<ShortWrite, n - ShortWrite>>}
          ELSE {})

\* Fd::read on the client's end of the pipe: a read takes what the pipe
\* holds, up to the size of the buffer, and the client keeps the bytes
client_read(ch) ==
    LET res == Min(Len(pipe[ch]), BUF1_SIZE)
    IN  /\ res >= 1
        /\ pipe' = [pipe EXCEPT ![ch] = split_off(@, res)]
        /\ rbuf' = [rbuf EXCEPT ![ch] = @ \o SubSeq(pipe[ch], 1, res)]
        /\ last' = NoOp
        /\ UNCHANGED <<panicked, connection_infos, live_maps, regions, timestamp,
                       poll_read, poll_write, shm, segs, vfs, views>>
        /\ UNCHANGED <<script, written, wbuf, wst, rst, recvd, wclosed>>
        /\ UNCHANGED loop
        /\ UNCHANGED fd_vars

\* the bytes the pipe of the connection has been given so far
Delivered == rbuf[WriteChan] \o pipe[WriteChan]

RECURSIVE Concat(_)
Concat(seqs) == IF seqs = <<>> THEN <<>> ELSE Head(seqs) \o Concat(Tail(seqs))

\* the replies queued on the connection so far (script), serialized, in the
\* order they were queued in
Enqueued ==
    Concat([i \in 1..Len(script[WriteChan]) |->
               serialize("VfsReplyMsg", script[WriteChan][i])])

WriteConnect == AddConnection(WriteToken)

\* an OpenFile request that the Vfs serves: handle_open_request queues the
\* reply with write_reply
WriteRequest ==
    \E path \in CanonPaths :
        /\ WriteToken \in DOMAIN connection_infos
        /\ Len(script[WriteChan]) < MaxMsgs
        /\ \E wres \in WriteResults(Len(connection_infos[WriteToken].write_state)
                                      + ReplyBytes) :
               handle_request(WriteToken, [tag |-> "OpenFile", path |-> path],
                              "Ok", 1, wres)
        /\ script' = [script EXCEPT ![WriteChan] = Append(@, last'.reply)]
        /\ UNCHANGED <<written, wbuf, wst, rbuf, rst, recvd, wclosed, loop>>
        /\ UNCHANGED fd_vars

\* a writable event of the connection's write fd: handle_write
WriteWritable ==
    /\ WriteToken \in DOMAIN connection_infos
    /\ Len(Delivered) < MaxStream
    /\ \E wres \in WriteResults(Len(connection_infos[WriteToken].write_state)) :
           handle_write(WriteToken, wres)

\* a writable event at which the pipe takes all that is offered
WriteWritableAll ==
    /\ WriteToken \in DOMAIN connection_infos
    /\ Len(Delivered) < MaxStream
    /\ handle_write(WriteToken, <<Len(connection_infos[WriteToken].write_state)>>)

WriteRead == client_read(WriteChan)

WriteRemoveEndPoint ==
    \E order \in Orders(IF WriteToken \in DOMAIN connection_infos
                        THEN DOMAIN connection_infos[WriteToken].opened_files
                        ELSE {}) :
        remove_server_end_point(WriteToken, order)

WriteNext ==
    \/ WriteConnect
    \/ WriteRequest
    \/ WriteWritable
    \/ WriteRead
    \/ WriteRemoveEndPoint

SpecWrite == ServerInit /\ [][WriteNext]_vars

\* the client keeps reading, and the pipe takes all that is offered at a
\* writable event again and again
SpecWriteFair ==
    /\ SpecWrite
    /\ WF_vars(WriteRead)
    /\ SF_vars(WriteWritableAll)

\* ------------------------------------------------- claims about the outbound buffer
\* C31: the bytes given to the pipe of a connection, followed by the bytes
\* still in its outbound buffer, are the serialized replies in the order they
\* were queued in: no byte is lost, duplicated or reordered.
C31_StreamIsReplies ==
    WriteToken \in DOMAIN connection_infos =>
        Delivered \o connection_infos[WriteToken].write_state = Enqueued

\* the bytes the step has given to the pipe of the connection
Accepted == SubSeq(pipe'[WriteChan], Len(pipe[WriteChan]) + 1, Len(pipe'[WriteChan]))

\* C32: after a handle_write the outbound buffer holds the bytes of the old
\* buffer that the pipe has not taken (what the pipe took, followed by the
\* new buffer, is the old buffer), and the write fd is registered afterwards
\* exactly when the new buffer is not empty.
C32_HandleWriteKeepsRest ==
    [][last'.op = "write" =>
          LET old == connection_infos[WriteToken].write_state
              new == connection_infos'[WriteToken].write_state
          IN  /\ Accepted \o new = old
              /\ (WriteToken \in poll_write') = (new # <<>>)]_vars

\* C33: a reply queued on a connection whose outbound buffer is empty is
\* written at once: what the pipe took, followed by the new buffer, is the
\* serialized reply, and the write fd is registered afterwards exactly when
\* the new buffer is not empty. A reply queued behind pending bytes is only
\* appended: nothing is written and the registration is as before.
C33_WriteReply ==
    [][(last'.op = "open" /\ last'.result = "Ok") =>
          LET old   == connection_infos[WriteToken].write_state
              new   == connection_infos'[WriteToken].write_state
              reply == serialize("VfsReplyMsg", last'.reply)
          IN  IF old = <<>>
              THEN /\ Accepted \o new = reply
                   /\ (WriteToken \in poll_write') = (new # <<>>)
              ELSE /\ new = old \o reply
                   /\ Accepted = <<>>
                   /\ (WriteToken \in poll_write') = (WriteToken \in poll_write)]_vars

\* ------------------------------------------------- claims about the end of the input
\* the step is the end of a handle_read whose reads met the end of the pipe
EofStep == loop.pc = "frames" /\ loop.met_eof /\ last'.op = "eof"

\* the bytes of read_state.buf that no round of handle_read has decoded
Remainder ==
    LET buf == connection_infos[loop.tok].read_state
    IN  SubSeq(buf, loop.start_pos + 1, Len(buf))

C34_WitnessMiddle ==
    /\ last.op = "eof"
    /\ loop.pc = "returned"
    /\ loop.result = "PipeCloseMiddle"

\* the step is a round of handle_read, or its end: the peers' steps leave
\* loop, panicked and recvd of the requests as they are
HandleReadStep ==
    /\ loop.pc = "frames"
    /\ ~panicked
    /\ (loop' # loop \/ panicked' \/ recvd' # recvd)

\* C35: a round of handle_read over the bytes a client has sent does not
\* panic, and it either ends handle_read (with Ok or an error value) or moves
\* start_pos forward.
C35_HandleReadTotal ==
    [][HandleReadStep =>
          /\ ~panicked'
          /\ \/ loop'.pc # "frames"
             \/ loop'.start_pos > loop.start_pos]_vars

\* the first i replies queued on the connection, serialized
EnqueuedUpTo(i) ==
    Concat([j \in 1..i |-> serialize("VfsReplyMsg", script[WriteChan][j])])

\* C36: while the client keeps reading and the pipe keeps taking what it is
\* offered, every reply queued on a connection is in the end written to the
\* pipe in full, behind the replies queued before it (unless the server
\* removes the connection first).
C36_EveryReplyWritten ==
    \A i \in 1..MaxMsgs :
        (Len(script[WriteChan]) >= i)
            ~> (\/ /\ Len(script[WriteChan]) >= i
                   /\ IsPrefix(EnqueuedUpTo(i), Delivered)
                \/ WriteToken \notin DOMAIN connection_infos)

C38_NoOpenHandleDropped ==
    last.op \in {"add", "remove"} => ~panicked

\* ------------------------------------------------- claims about failed and repeated opens
\* C39: an OpenFile request that returns an error leaves the server as it
\* was: the published names, the registry, the tables of the connections and
\* their buffers, and the pipes are those of before the request.
C39_FailedOpenChangesNothing ==
    [][(last'.op = "open" /\ last'.result = "Err") =>
          /\ shm' = shm
          /\ live_maps' = live_maps
          /\ connection_infos' = connection_infos
          /\ poll_write' = poll_write
          /\ pipe' = pipe]_vars

\* the step handles a request for a path that is a key of the open-files
\* table of the connection
OnOpenPath ==
    /\ last'.tok \in DOMAIN connection_infos
    /\ last'.path \in DOMAIN connection_infos[last'.tok].opened_files

C40_WitnessClosed ==
    /\ last.op = "close"
    /\ last.result = "CloseNonOpenedFile"
    /\ DOMAIN connection_infos = {last.tok}
    /\ connection_infos[last.tok].opened_files = <<>>
    /\ shm = <<>>
    /\ regions # <<>>
====
